---- MODULE Spec2Model ----
(***************************************************************************)
(* Call-frame kernel of the Radix Engine (radix-engine/src/engine/          *)
(* call_frame.rs): the stack of call frames, each frame's owned heap and    *)
(* node-refs table, the Track's substates and lock table, and the SystemApi *)
(* operations that move nodes between frames and lock substates.            *)
(*                                                                          *)
(* A nested invocation is a synchronous recursive descent in the code.  It  *)
(* is modelled by a stack: the set-up half of invoke_function /             *)
(* invoke_method pushes the child frame, the body of the top frame issues   *)
(* SystemApi calls, and the frame's return runs the tail of run() followed  *)
(* by the tail of the invoke in the caller.  An error returned to a body is *)
(* passed on by every frame (`?`) and fails the transaction: the frames     *)
(* below are dropped without any further effect on the Track, so the state  *)
(* at the failing call is the state the transaction ends in.                *)
(***************************************************************************)
EXTENDS Integers, Sequences, FiniteSets, TLC

VARIABLES
    stack,        \* Seq(frame): stack[1] is the root frame (depth 0)
    track,        \* the Track: substates, lock table, touched, taken, flushed, non-fungibles
    child_nodes,  \* HeapRootRENode.child_nodes of every root: root id -> set of descendant ids
    value_ids,    \* node ids referenced by the value held in a component state / kv-store entry
    restricted,   \* proofs that are in the restricted state
    component_info, \* the info (package, blueprint, access rules) a component holds
    persisted,    \* node ids handed over to the Track (globalized or stored as children)
    next_id,      \* IdAllocator: the next identifier to mint
    fee,          \* FeeReserve: the cost units that remain
    status,       \* "running" | "finished" | "failed" | "panicked"
    last          \* the SystemApi call that completed last, and its result

vars == <<stack, track, child_nodes, value_ids, restricted, component_info, persisted,
          next_id, fee, status, last>>

----------------------------------------------------------------------------
(* Bounds of the model *)

\* max_depth handed to new_root: frames exist at depths 0..MaxDepth
MaxDepth == 3
\* number of identifiers the IdAllocator may mint in one run
MaxIds == 2
\* cost units loaded into the fee reserve; every consume call takes one
MaxFee == 7
\* smaller fee reserves, of transactions with a lower cost unit limit
SmallFee == 4
MediumFee == 5
LargeFee == 6

----------------------------------------------------------------------------
(* Identifiers *)

NoNode == <<"None", 0>>

\* kinds of node a frame can create through node_create
CreatableKinds == {"Bucket", "Proof", "Vault", "KeyValueStore", "Component"}

\* nodes that exist in the substate store before the transaction starts
pk0 == <<"Package", 0>>
c0  == <<"Component", 0>>
v0  == <<"Vault", 0>>
k0  == <<"KeyValueStore", 0>>
r0  == <<"ResourceManager", 0>>
\* identifiers that name nothing: never minted, not in the store
pkX == <<"Package", 9>>
cX  == <<"Component", 9>>
bX  == <<"Bucket", 9>>

StoreNodes == {pk0, c0, v0, k0, r0}
MintedNodes == {<<k, i>> : k \in CreatableKinds, i \in 1..MaxIds}
AllNodes == StoreNodes \cup MintedNodes \cup {pkX, cX, bX}

Kind(n) == n[1]

\* SubstateId: <<tag, owning node>>; a kv-store is modelled with one key
Sid(tag, n) == <<tag, n>>

\* SubstateProperties::get_node_id
get_node_id(sid) == sid[2]

\* RENodePointer
HeapPtr(frame_id, root, id) == [t |-> "Heap", frame_id |-> frame_id, root |-> root, id |-> id]
StorePtr(n) == [t |-> "Store", frame_id |-> 0, root |-> n, id |-> NoNode]

\* RENodePointer::node_id
node_id(p) == IF p.t = "Heap" THEN (IF p.id = NoNode THEN p.root ELSE p.id) ELSE p.root

\* RENodePointer::child
child(p, child_id) ==
    IF p.t = "Heap" THEN HeapPtr(p.frame_id, p.root, child_id) ELSE StorePtr(child_id)

\* FnIdentifier
ScryptoFn(pkg, bp, ident) == [t |-> "Scrypto", pkg |-> pkg, bp |-> bp, ident |-> ident]
NativeFn(module, ident) == [t |-> "Native", pkg |-> NoNode, bp |-> module, ident |-> ident]

\* Receiver (and None for a function call)
NoReceiver == [t |-> "None", node |-> NoNode]
RefRecv(n) == [t |-> "Ref", node |-> n]
ConsumedRecv(n) == [t |-> "Consumed", node |-> n]
AuthZoneRef == [t |-> "AuthZoneRef", node |-> NoNode]

\* ScryptoValue: the node ids, referenced component addresses and resource
\* addresses found in the value, and whether it matches the declared schema
Value(nodes, refed, res, ok) == [nodes |-> nodes, refed |-> refed, res |-> res, ok |-> ok]
UnitValue == Value({}, {}, {}, TRUE)

kv_store_ids(v) == {n \in v.nodes : Kind(n) = "KeyValueStore"}
vault_ids(v) == {n \in v.nodes : Kind(n) = "Vault"}

----------------------------------------------------------------------------
(* Helpers on functions used as maps *)

Remove(f, S) == [x \in (DOMAIN f) \ S |-> f[x]]
Put(f, k, v) == [x \in (DOMAIN f) \cup {k} |-> IF x = k THEN v ELSE f[x]]
EmptyMap == [x \in {} |-> 0]

Top == stack[Len(stack)]
Depth == Len(stack) - 1

----------------------------------------------------------------------------
(* The Track: substates, lock table, touched and taken substates.  The     *)
(* Track itself is a collaborator of the call frame; its operations follow *)
(* the contract the call frame relies on.                                   *)

\* Track::acquire_lock: exclusive excludes any other holder, shared excludes
\* exclusive; a write-through (lock-fee) lock needs an untouched substate
acquire_lock(t, sid, mutable, write_through) ==
    IF sid \in DOMAIN t.locks
    THEN IF mutable \/ t.locks[sid].mutable
         THEN [err |-> "Reentrancy", track |-> t]
         ELSE [err |-> "Ok",
               track |-> [t EXCEPT !.locks = Put(t.locks, sid,
                              [t.locks[sid] EXCEPT !.count = @ + 1])]]
    ELSE IF sid \notin t.substates
    THEN [err |-> "NotFound", track |-> t]
    ELSE IF write_through /\ sid \in t.touched
    THEN [err |-> "RENodeAlreadyTouched", track |-> t]
    ELSE [err |-> "Ok",
          track |-> [t EXCEPT !.locks = Put(t.locks, sid,
                         [mutable |-> mutable, count |-> 1, write_through |-> write_through]),
                     !.touched = @ \cup {sid}]]

\* Track::release_lock: lowers the lock count; a write-through release puts
\* the value into the durable snapshot at once.  Releasing a substate that
\* is not locked is a kernel bug (err = "panic").
release_lock(t, sid, write_through) ==
    IF sid \notin DOMAIN t.locks
    THEN [err |-> "panic", track |-> t]
    ELSE LET l == t.locks[sid]
             locks2 == IF l.count > 1
                       THEN Put(t.locks, sid, [l EXCEPT !.count = @ - 1])
                       ELSE Remove(t.locks, {sid})
         IN [err |-> "Ok",
             track |-> [t EXCEPT !.locks = locks2,
                                 !.flushed = IF write_through THEN @ \cup {sid} ELSE @]]

\* Track::read_substate needs a prior lock or a create in this transaction,
\* and the value not to be taken out
can_read_substate(t, sid) ==
    /\ sid \in t.substates /\ sid \notin t.taken
    /\ (sid \in DOMAIN t.locks \/ sid \in t.created)

\* Track::take_substate moves the value out under an exclusive lock
can_take_substate(t, sid) ==
    /\ sid \in t.substates /\ sid \notin t.taken
    /\ sid \in DOMAIN t.locks /\ t.locks[sid].mutable

\* Track::create_uuid_substate for a set of new substates
create_uuid_substates(t, sids) ==
    [t EXCEPT !.substates = @ \cup sids, !.created = @ \cup sids]

\* RENodePointer::acquire_lock: only Store pointers lock; Track errors are
\* mapped to RuntimeErrors
PtrAcquireLock(p, sid, mutable, write_through, t) ==
    IF p.t = "Store"
    THEN LET r == acquire_lock(t, sid, mutable, write_through)
         IN [err |-> CASE r.err = "Ok" -> "Ok"
                       [] r.err = "RENodeAlreadyTouched" -> "LockFeeError(RENodeAlreadyTouched)"
                       [] r.err = "NotFound" -> "RENodeNotFound"
                       [] r.err = "Reentrancy" -> "Reentrancy",
             track |-> r.track]
    ELSE [err |-> "Ok", track |-> t]

\* RENodePointer::release_lock
PtrReleaseLock(p, sid, write_through, t) ==
    IF p.t = "Store" THEN release_lock(t, sid, write_through)
    ELSE [err |-> "Ok", track |-> t]

\* a lock recorded in locked_pointers / temporary_locks / locked_values
Locked(p, sid, write_through) == [ptr |-> p, sid |-> sid, wt |-> write_through]

\* the release loop over locked_pointers (invoke_method) or locked_values
\* (invoke_function)
RECURSIVE ReleaseAll(_, _)
ReleaseAll(t, ls) ==
    IF ls = <<>> THEN [err |-> "Ok", track |-> t]
    ELSE LET r == PtrReleaseLock(ls[1].ptr, ls[1].sid, ls[1].wt, t)
         IN IF r.err # "Ok" THEN r ELSE ReleaseAll(r.track, Tail(ls))

----------------------------------------------------------------------------
(* Node and substate properties used by the kernel *)

\* HeapRENode::verify_can_move: buckets, proofs, vaults, kv-stores and
\* components may move between frames
verify_can_move(n) == Kind(n) \in {"Bucket", "Proof", "Vault", "KeyValueStore", "Component"}

\* HeapRENode::verify_can_persist: only vaults, kv-stores and components can
\* be stored
verify_can_persist(n) == Kind(n) \in {"Vault", "KeyValueStore", "Component"}

\* HeapRENode::drop_nodes accepts buckets, proofs and worktops only
droppable(n) == Kind(n) \in {"Bucket", "Proof", "Worktop"}

\* faulty variant: every kind of node can be globalized
can_globalize_any(n) == TRUE

\* RENodeProperties::can_globalize
can_globalize(n) == Kind(n) \in {"Component", "Package", "ResourceManager"}

\* SubstateProperties::can_own_nodes
can_own_nodes(sid) == sid[1] \in {"ComponentState", "KeyValueStoreEntry"}

\* RENodeProperties::to_primary_substate_id: the substate an invoke_method
\* locks for its receiver; "none" stands for MethodDoesNotExist
to_primary_substate_id(fn, n) ==
    IF fn.t = "Native"
    THEN CASE Kind(n) = "Bucket" -> Sid("Bucket", n)
           [] Kind(n) = "Proof" -> Sid("Proof", n)
           [] Kind(n) = "ResourceManager" -> Sid("ResourceManager", n)
           [] Kind(n) = "Component" -> Sid("ComponentInfo", n)
           [] Kind(n) = "Vault" -> Sid("Vault", n)
           [] OTHER -> Sid("none", n)
    ELSE IF Kind(n) = "Component" THEN Sid("ComponentState", n) ELSE Sid("none", n)

\* REActor::is_substate_readable
is_substate_readable(fn, recv, sid) ==
    IF fn.t = "Native" THEN TRUE
    ELSE CASE recv.t = "None" -> sid[1] \in {"KeyValueStoreEntry", "ComponentInfo"}
           [] recv.t = "Ref" /\ Kind(recv.node) = "Component" ->
                  \/ sid[1] \in {"KeyValueStoreEntry", "ComponentInfo"}
                  \/ sid = Sid("ComponentState", recv.node)
           [] OTHER -> FALSE

\* REActor::is_substate_writeable
is_substate_writeable(fn, recv, sid) ==
    IF fn.t = "Native" THEN TRUE
    ELSE CASE recv.t = "None" -> sid[1] = "KeyValueStoreEntry"
           [] recv.t = "Ref" /\ Kind(recv.node) = "Component" ->
                  \/ sid[1] = "KeyValueStoreEntry"
                  \/ sid = Sid("ComponentState", recv.node)
           [] OTHER -> FALSE

\* the package of the store: one blueprint "B" with one function "f"
blueprint_abi(pkg, bp) == pkg = pk0 /\ bp = "B"
get_fn_abi(ident) == ident = "f"

\* Component::package_address / blueprint_name: every component of the model
\* instantiates blueprint "B" of pk0
component_package(c) == pk0
component_blueprint(c) == "B"

\* Bucket::resource_address / Vault::resource_address: one resource
resource_address(n) == r0

\* the sequences that enumerate a set, one per iteration order of a HashSet
Orders(S) ==
    {o \in [1..Cardinality(S) -> S] : \A i, j \in 1..Cardinality(S) : i # j => o[i] # o[j]}

----------------------------------------------------------------------------
(* take_available_values *)

\* the loop of take_available_values over node_ids in iteration order
RECURSIVE TakeLoop(_, _, _, _, _)
TakeLoop(heap, order, persist_only, taken, missing) ==
    IF order = <<>>
    THEN [err |-> "Ok", heap |-> heap, taken |-> taken, missing |-> missing]
    ELSE LET id == Head(order)
         IN IF id \in heap
            THEN IF ~verify_can_move(id)
                 THEN [err |-> "CantMove", heap |-> heap \ {id},
                       taken |-> taken, missing |-> missing]
                 ELSE IF persist_only /\ ~verify_can_persist(id)
                 THEN [err |-> "ValueNotAllowed", heap |-> heap \ {id},
                       taken |-> taken, missing |-> missing]
                 ELSE TakeLoop(heap \ {id}, Tail(order), persist_only,
                               taken \cup {id}, missing)
            ELSE TakeLoop(heap, Tail(order), persist_only, taken, missing \cup {id})

\* the node refs removed for moved values: the roots and their child nodes
RefsAfterTake(refs, taken) ==
    Remove(refs, taken \cup UNION {child_nodes[x] : x \in taken})

\* faulty variant: persist_only is ignored
take_available_values_any(heap, refs, order, persist_only) ==
    [err |-> TakeLoop(heap, order, FALSE, {}, {}).err,
     heap |-> TakeLoop(heap, order, FALSE, {}, {}).heap,
     taken |-> TakeLoop(heap, order, FALSE, {}, {}).taken,
     missing |-> TakeLoop(heap, order, FALSE, {}, {}).missing,
     refs |-> IF TakeLoop(heap, order, FALSE, {}, {}).err = "Ok"
              THEN RefsAfterTake(refs, TakeLoop(heap, order, FALSE, {}, {}).taken)
              ELSE refs]

\* CallFrame::take_available_values
take_available_values(heap, refs, order, persist_only) ==
    LET r == TakeLoop(heap, order, persist_only, {}, {})
    IN [err |-> r.err, heap |-> r.heap, taken |-> r.taken, missing |-> r.missing,
        refs |-> IF r.err = "Ok" THEN RefsAfterTake(refs, r.taken) ELSE refs]

\* faulty variant: the update of the stored children is not verified
verify_stored_value_update_skipped(old, missing) == "Ok"

\* verify_stored_value_update
verify_stored_value_update(old, missing) ==
    IF \E x \in old : x \notin missing THEN "StoredNodeRemoved"
    ELSE IF \E y \in missing : y \notin old THEN "RENodeNotFound"
    ELSE "Ok"

\* faulty variant: the vault ids are looked at first
process_call_data_vaults_first(v) ==
    IF vault_ids(v) # {} THEN "VaultNotAllowed"
    ELSE IF kv_store_ids(v) # {} THEN "KeyValueStoreNotAllowed"
    ELSE "Ok"

\* CallFrame::process_call_data
process_call_data(v) ==
    IF kv_store_ids(v) # {} THEN "KeyValueStoreNotAllowed"
    ELSE IF vault_ids(v) # {} THEN "VaultNotAllowed"
    ELSE "Ok"

\* CallFrame::process_return_data
process_return_data(v) ==
    IF kv_store_ids(v) # {} THEN "KeyValueStoreNotAllowed" ELSE "Ok"

----------------------------------------------------------------------------
(* Frames *)

\* CallFrame::new; args keeps the nodes the frame started with (the call
\* arguments and a Consumed receiver).  auth tells whether the frame has an
\* auth zone of its own and zone the proofs in it (AuthZone::new() is empty);
\* maybe_authzone tells whether run() hands the caller's auth zone to the body
NewFrame(fn, recv, auth, heap, refs, locked, via, pre) ==
    [fn |-> fn, recv |-> recv, auth |-> auth, heap |-> heap, refs |-> refs,
     locked |-> locked, via |-> via, pre |-> pre, borrowed |-> {}, args |-> heap,
     zone |-> <<>>, maybe_authzone |-> FALSE]

\* the proofs new_root puts into the root frame's auth zone: the virtual
\* proof of the transaction's signers
RootProofs == <<"signer_proof">>

\* CallFrame::new_root
new_root ==
    [NewFrame(NativeFn("TransactionProcessor", "Run"), NoReceiver, TRUE, {}, EmptyMap,
              <<>>, "root", EmptyMap) EXCEPT !.zone = RootProofs]

\* what a call reports besides its result: the phase it ended in ("setup":
\* before a child frame ran, "body": in the child's body, "run": in the tail
\* of the child's run(), "read": a substate_take that read the current
\* value), the nodes run() left to drop and handed back, the
\* frame's heap as run() left it, the Track substates it wrote, the node ids
\* of the old and new value of a write and those the writer owned, the
\* primary substate an invoke_method aimed at, whether through a Store
\* pointer, the kind of pointer and whether the call was Vault::lock_fee, the
\* node a node_globalize was called on or a Consumed receiver named, the
\* info a read of a ComponentInfo
\* returned, the node ids and the component addresses of the value an invoke
\* passed or a run() returned, the nodes handed back that the frame had
\* started with
NoAux == [phase |-> "setup", left |-> {}, ret |-> {}, heap |-> {}, wrote |-> {},
          old |-> {}, new |-> {}, own |-> {},
          target |-> <<"none", NoNode>>, store |-> FALSE, ptr |-> "None",
          lock_fee |-> FALSE, node |-> NoNode, info |-> 0, arg |-> {}, refed |-> {},
          back |-> {}]

NoCall == [op |-> "none", res |-> "Ok", depth |-> 0, charged |-> 0,
           acq |-> <<>>, pre |-> EmptyMap, aux |-> NoAux]

Init ==
    /\ stack = <<new_root>>
    /\ track = [substates |-> {Sid("Package", pk0), Sid("ComponentInfo", c0),
                               Sid("ComponentState", c0), Sid("Vault", v0),
                               Sid("ResourceManager", r0)},
                locks |-> EmptyMap, touched |-> {}, taken |-> {}, flushed |-> {},
                created |-> {}, non_fungibles |-> {Sid("NonFungible", r0)}]
    /\ child_nodes = [n \in AllNodes |-> {}]
    /\ value_ids = [n \in AllNodes |-> IF n = c0 THEN {v0, k0} ELSE {}]
    /\ restricted = {}
    /\ component_info = [n \in AllNodes |-> 0]
    /\ persisted = StoreNodes
    /\ next_id = 1
    /\ fee = MaxFee
    /\ status = "running"
    /\ last = NoCall

----------------------------------------------------------------------------
(* Results of a SystemApi call *)

Call(op, res, depth, charged, acq, pre, aux) ==
    [op |-> op, res |-> res, depth |-> depth, charged |-> charged, acq |-> acq,
     pre |-> pre, aux |-> aux]

SetTop(f) == [stack EXCEPT ![Len(stack)] = f]

\* an error returned to the body of the top frame: the body passes it on
\* (`?`), and so does every frame below; the transaction fails
Raise(err) == status' = "failed"

Panic ==
    /\ status' = "panicked"
    /\ UNCHANGED <<stack, track, child_nodes, value_ids, restricted, component_info, persisted,
                   next_id, fee, last>>

\* FeeReserve::consume called `calls` times in a row with balance b: the
\* number of calls that succeed
Consumed(b, calls) == IF b >= calls THEN calls ELSE b

Running == status = "running"

----------------------------------------------------------------------------
(* invoke_function *)

\* the existence check of the component addresses of a transaction: each is
\* locked and released again
\* faulty variant: the lock taken to prove that a component exists is kept
RECURSIVE CheckComponents_Kept(_, _, _)
CheckComponents_Kept(t, corder, refs) ==
    IF corder = <<>> THEN [err |-> "Ok", track |-> t, refs |-> refs]
    ELSE LET c == Head(corder)
             a == PtrAcquireLock(StorePtr(c), Sid("ComponentInfo", c), FALSE, FALSE, t)
         IN IF a.err # "Ok" THEN [err |-> a.err, track |-> a.track, refs |-> refs]
            ELSE CheckComponents_Kept(a.track, Tail(corder), Put(refs, c, StorePtr(c)))

\* the loop "Make components visible" over corder, the component addresses in
\* iteration order; refs is next_frame_node_refs
RECURSIVE CheckComponents(_, _, _)
CheckComponents(t, corder, refs) ==
    IF corder = <<>> THEN [err |-> "Ok", track |-> t, refs |-> refs]
    ELSE LET c == Head(corder)
             a == PtrAcquireLock(StorePtr(c), Sid("ComponentInfo", c), FALSE, FALSE, t)
         IN IF a.err # "Ok" THEN [err |-> a.err, track |-> a.track, refs |-> refs]
            ELSE CheckComponents(
                     PtrReleaseLock(StorePtr(c), Sid("ComponentInfo", c), FALSE, a.track).track,
                     Tail(corder), Put(refs, c, StorePtr(c)))

\* faulty variant: the proofs sent keep their state
RestrictedProofs_None(taken) == {}

\* the loop over the taken values of an invoke: the proofs among them change
\* to restricted
RestrictedProofs(taken) == {n \in taken : Kind(n) = "Proof"}

\* faulty variant: every address is passed as a Store pointer
PassReferencesAsStore(refs, refed) == [c \in refed |-> StorePtr(c)]

\* the reference-passing loop of an invoke at depth > 0
PassReferences(refs, refed) == [c \in refed |-> refs[c]]

\* what the set-up half of an invoke leaves behind: its result, the fee
\* charged, the caller's heap and refs, the Track, the locks it holds, the
\* proofs it restricted, the child frame, and the primary substate it aimed at
Outcome(res, charged, heap, refs, t, acq, restr, frame) ==
    [res |-> res, charged |-> charged, heap |-> heap, refs |-> refs, track |-> t,
     acq |-> acq, restr |-> restr, frame |-> frame,
     target |-> <<"none", NoNode>>, store |-> FALSE, ptr |-> "None", lock_fee |-> FALSE,
     consumed |-> NoNode]

\* faulty variant: the depth check lets one more level through
DepthLimitOffByOne(d) == d = MaxDepth + 1

\* the depth check that opens invoke_function and invoke_method
DepthLimitReached(d) == d = MaxDepth

\* invoke_function, depth 0: the component addresses named by the
\* transaction were checked (cc), the child frame gets a Store ref to each
InvokeFunction_Root(F, t0, fn, input, tk, acq, cc) ==
    IF cc.err # "Ok" THEN Outcome(cc.err, 2, tk.heap, tk.refs, cc.track, acq, {}, F)
    ELSE Outcome("Ok", 2, tk.heap, tk.refs, cc.track, acq,
                 RestrictedProofs(tk.taken),
                 NewFrame(fn, NoReceiver, TRUE, tk.taken, cc.refs, acq,
                          "invoke_function", t0.locks))

\* invoke_function from the reference passing to the child frame; t1 is the
\* Track after the package lock, acq the locks held
InvokeFunction_Refs(F, d, t0, fn, input, corder, tk, t1, acq) ==
    IF d = 0 THEN InvokeFunction_Root(F, t0, fn, input, tk, acq,
                                        CheckComponents(t1, corder, EmptyMap))
    ELSE IF \E c \in input.refed : c \notin DOMAIN tk.refs
    THEN Outcome("InvokeMethodInvalidReferencePass", 2, tk.heap, tk.refs, t1, acq, {}, F)
    ELSE Outcome("Ok", 2, tk.heap, tk.refs, t1, acq,
                 RestrictedProofs(tk.taken),
                 NewFrame(fn, NoReceiver, TRUE, tk.taken,
                          PassReferences(tk.refs, input.refed), acq,
                          "invoke_function", t0.locks))

\* invoke_function of a Scrypto function after the attempt lk to lock its
\* package: the checks of the blueprint, the function and the input
InvokeFunction_Package(F, d, t0, fn, input, corder, tk, lk, acq) ==
    IF lk.err = "NotFound"
    THEN Outcome("PackageNotFound", 2, tk.heap, tk.refs, t0, <<>>, {}, F)
    ELSE IF lk.err # "Ok" THEN Outcome("panic", 2, tk.heap, tk.refs, t0, <<>>, {}, F)
    ELSE IF ~blueprint_abi(fn.pkg, fn.bp)
    THEN Outcome("BlueprintNotFound", 2, tk.heap, tk.refs, lk.track, acq, {}, F)
    ELSE IF ~get_fn_abi(fn.ident)
    THEN Outcome("MethodDoesNotExist", 2, tk.heap, tk.refs, lk.track, acq, {}, F)
    ELSE IF ~input.ok
    THEN Outcome("InvalidFnInput", 2, tk.heap, tk.refs, lk.track, acq, {}, F)
    ELSE InvokeFunction_Refs(F, d, t0, fn, input, corder, tk, lk.track, acq)

\* invoke_function after take_available_values returned tk
InvokeFunction_Taken(F, d, t, fn, input, corder, tk) ==
    IF tk.err # "Ok" THEN Outcome(tk.err, 2, tk.heap, tk.refs, t, <<>>, {}, F)
    ELSE IF tk.missing # {} THEN Outcome("RENodeNotFound", 2, tk.heap, tk.refs, t, <<>>, {}, F)
    ELSE IF fn.t = "Scrypto"
    THEN InvokeFunction_Package(F, d, t, fn, input, corder, tk,
             acquire_lock(t, Sid("Package", fn.pkg), FALSE, FALSE),
             <<Locked(StorePtr(fn.pkg), Sid("Package", fn.pkg), FALSE)>>)
    ELSE InvokeFunction_Refs(F, d, t, fn, input, corder, tk, t, <<>>)

\* invoke_function up to the construction of the child frame.  fees is the
\* balance of the fee reserve, order and corder the iteration orders of
\* input.node_ids() and of the component addresses.
InvokeFunctionSetup(F, d, t, fn, input, order, fees, corder) ==
    IF DepthLimitReached(d)
    THEN Outcome("MaxCallDepthLimitReached", 0, F.heap, F.refs, t, <<>>, {}, F)
    ELSE IF fees < 2
    THEN Outcome("CostingError", Consumed(fees, 2), F.heap, F.refs, t, <<>>, {}, F)
    ELSE IF process_call_data(input) # "Ok"
    THEN Outcome(process_call_data(input), 2, F.heap, F.refs, t, <<>>, {}, F)
    ELSE InvokeFunction_Taken(F, d, t, fn, input, corder,
                              take_available_values(F.heap, F.refs, order, FALSE))

\* the effect of the set-up half of an invoke on the state: a new frame on
\* success, the error handed to the caller's body otherwise
ApplyInvoke(op, input, o) ==
    IF o.res = "panic" THEN Panic
    ELSE /\ track' = o.track
         /\ restricted' = restricted \cup o.restr
         /\ fee' = fee - o.charged
         /\ UNCHANGED <<child_nodes, value_ids, component_info, persisted, next_id>>
         /\ IF o.res = "Ok"
            THEN /\ stack' = Append(SetTop([Top EXCEPT !.heap = o.heap, !.refs = o.refs]),
                                    o.frame)
                 /\ UNCHANGED <<status, last>>
            ELSE /\ stack' = SetTop([Top EXCEPT !.heap = o.heap, !.refs = o.refs])
                 /\ last' = Call(op, o.res, Depth, o.charged, o.acq, track.locks,
                                 [NoAux EXCEPT !.target = o.target, !.store = o.store,
                                               !.ptr = o.ptr, !.lock_fee = o.lock_fee,
                                               !.node = o.consumed,
                                               !.arg = input.nodes,
                                               !.refed = input.refed])
                 /\ Raise(o.res)

\* the node-id sets a body may put in a value: what it owns, and one id that
\* names nothing
NodeSets(F) == {S \in SUBSET (F.heap \cup {bX}) : Cardinality(S) <= 2}

\* the component addresses a body may reference
RefSets(F) == {{}} \cup {{c} : c \in {c0, cX} \cup {n \in DOMAIN F.refs : Kind(n) = "Component"}}

FunctionIds ==
    {ScryptoFn(pk0, "B", "f"), ScryptoFn(pkX, "B", "f"), ScryptoFn(pk0, "Z", "f"),
     ScryptoFn(pk0, "B", "z"), NativeFn("ResourceManager", "Create")}

\* the arguments a body may pass: nothing, nodes (at most `most` of them), a
\* component address, a resource address
CallInputs(F, most) ==
    {Value(S, {}, {}, TRUE) : S \in {T \in NodeSets(F) : Cardinality(T) <= most}}
    \cup {Value({}, R, {}, TRUE) : R \in RefSets(F)}
    \cup {Value({}, {}, {r0}, TRUE)}

\* the component addresses collected at depth 0: those of the input and
\* those of the arguments of the CallFunction / CallMethod instructions
component_addresses(refed, args) == refed \cup args

\* the executor starts the transaction: invoke_function(TransactionProcessor::Run)
\* on the root frame; the input (refed) and the arguments of its instructions
\* (args) name component addresses of the manifest
Execute ==
    /\ Running /\ Depth = 0
    /\ \E refed \in SUBSET {c0, cX}, args \in SUBSET {c0, cX} :
       \E corder \in Orders(component_addresses(refed, args)) :
          ApplyInvoke("invoke_function", Value({}, refed, {}, TRUE),
              InvokeFunctionSetup(Top, Depth, track, NativeFn("TransactionProcessor", "Run"),
                                  Value({}, refed, {}, TRUE), <<>>, fee, corder))

InvokeFunction ==
    /\ Running /\ Depth > 0 /\ Top.borrowed = {}
    /\ \E fn \in FunctionIds, input \in CallInputs(Top, 2) \cup {Value({}, {}, {}, FALSE)} :
       \E order \in Orders(input.nodes) :
          ApplyInvoke("invoke_function", input,
              InvokeFunctionSetup(Top, Depth, track, fn, input, order, fee, <<>>))

----------------------------------------------------------------------------
(* run(): the end of a frame *)

\* the automatic invoke_method(AuthZoneRef, AuthZone::Clear) at the end of
\* run(): its depth check and its two charges; the native child frame it
\* spawns owns nothing, holds no lock and returns unit
ClearAuthZone(d, fees) ==
    IF DepthLimitReached(d) THEN [err |-> "MaxCallDepthLimitReached", charged |-> 0]
    ELSE IF fees < 2 THEN [err |-> "CostingError", charged |-> Consumed(fees, 2)]
    ELSE [err |-> "Ok", charged |-> 2]

\* faulty variant: the drained values are not checked
drop_owned_values_unchecked(heap) == [heap |-> {}, err |-> "Ok"]

\* CallFrame::drop_owned_values: the heap is drained, then drop_nodes checks
\* the drained values
drop_owned_values(heap) ==
    [heap |-> {}, err |-> IF \A n \in heap : droppable(n) THEN "Ok" ELSE "DropFailure"]

\* the result of run(): the frame's heap and refs afterwards, the values
\* handed to the caller (ret), the values that were left to drop (left)
RunResult(res, heap, refs, ret, left, charged) ==
    [res |-> res, heap |-> heap, refs |-> refs, ret |-> ret, left |-> left,
     charged |-> charged]

\* run() after the auth zone was cleared (clr): drop what is still owned
RunTail_Cleared(tk, clr) ==
    IF clr.err # "Ok" THEN RunResult(clr.err, tk.heap, tk.refs, {}, {}, clr.charged)
    ELSE RunResult(drop_owned_values(tk.heap).err, drop_owned_values(tk.heap).heap,
                   tk.refs, tk.taken, tk.heap, clr.charged)

\* faulty variant: a returned reference may be any pointer the frame holds
RunTail_Taken_AnyPointer(F, d, output, fees, tk) ==
    IF tk.err # "Ok" THEN RunResult(tk.err, tk.heap, tk.refs, {}, {}, 0)
    ELSE IF tk.missing # {} THEN RunResult("RENodeNotFound", tk.heap, tk.refs, {}, {}, 0)
    ELSE IF \E c \in output.refed : c \notin DOMAIN tk.refs
    THEN RunResult("InvokeMethodInvalidReferencePass", tk.heap, tk.refs, {}, {}, 0)
    ELSE RunTail_Cleared(tk, IF F.auth THEN ClearAuthZone(d, fees)
                             ELSE [err |-> "Ok", charged |-> 0])

\* run() after the returned values were taken (tk): the check of the returned
\* references, then the clearing of the frame's auth zone
RunTail_Taken(F, d, output, fees, tk) ==
    IF tk.err # "Ok" THEN RunResult(tk.err, tk.heap, tk.refs, {}, {}, 0)
    ELSE IF tk.missing # {} THEN RunResult("RENodeNotFound", tk.heap, tk.refs, {}, {}, 0)
    ELSE IF \E c \in output.refed : ~(c \in DOMAIN tk.refs /\ tk.refs[c].t = "Store")
    THEN RunResult("InvokeMethodInvalidReferencePass", tk.heap, tk.refs, {}, {}, 0)
    ELSE RunTail_Cleared(tk, IF F.auth THEN ClearAuthZone(d, fees)
                             ELSE [err |-> "Ok", charged |-> 0])

\* the part of run() that follows the body: output is what the body returned
RunTail(F, d, output, order, fees) ==
    IF process_return_data(output) # "Ok"
    THEN RunResult(process_return_data(output), F.heap, F.refs, {}, {}, 0)
    ELSE RunTail_Taken(F, d, output, fees,
                       take_available_values(F.heap, F.refs, order, FALSE))

\* faulty variant: the received values are not inserted
InvokeTail_NotReceived(P, t, locked, received, output) ==
    [err |-> ReleaseAll(t, locked).err, track |-> ReleaseAll(t, locked).track,
     frame |-> [P EXCEPT !.refs = [c \in output.refed |-> StorePtr(c)] @@ @]]

\* faulty variant: the tail forgets to release the locks
InvokeTail_NoRelease(P, t, locked, received, output) ==
    [err |-> "Ok", track |-> t,
     frame |-> [P EXCEPT !.heap = @ \cup received,
                         !.refs = [c \in output.refed |-> StorePtr(c)] @@ @]]

\* the tail of invoke_function / invoke_method in the caller P after the
\* child's run() returned Ok: release the locks, take the received values,
\* accept the returned component references
InvokeTail(P, t, locked, received, output) ==
    [err |-> ReleaseAll(t, locked).err, track |-> ReleaseAll(t, locked).track,
     frame |-> [P EXCEPT !.heap = @ \cup received,
                         !.refs = [c \in output.refed |-> StorePtr(c)] @@ @]]

\* the values a body may return
ReturnSets(F) == {S \in SUBSET (F.heap \cup {bX}) : Cardinality(S) <= 1}

\* run() returned Ok and the invoke's tail (it) ran in the caller
ReturnOk(F, r, output, it) ==
    IF it.err # "Ok" THEN Panic
    ELSE /\ stack' = [SubSeq(stack, 1, Len(stack) - 1) EXCEPT ![Len(stack) - 1] = it.frame]
         /\ track' = it.track
         /\ last' = Call(F.via, "Ok", Depth - 1, 2, F.locked, F.pre,
                         [NoAux EXCEPT !.phase = "run", !.left = r.left, !.ret = r.ret,
                                       !.heap = r.heap, !.arg = r.ret,
                                       !.refed = output.refed,
                                       !.back = r.ret \cap F.args])
         /\ status' = IF Depth = 1 THEN "finished" ELSE status
         /\ fee' = fee - r.charged
         /\ UNCHANGED <<child_nodes, value_ids, restricted, component_info, persisted, next_id>>

\* faulty variant: the caller takes the returned values of a failed run()
ReturnApply_ErrReceived(F, P, output, r) ==
    IF r.res # "Ok"
    THEN /\ stack' = [SetTop([F EXCEPT !.heap = r.heap, !.refs = r.refs])
                         EXCEPT ![Len(stack) - 1].heap = @ \cup r.ret]
         /\ last' = Call(F.via, r.res, Depth - 1, 2, F.locked, F.pre,
                         [NoAux EXCEPT !.phase = "run", !.left = r.left, !.ret = r.ret,
                                       !.heap = r.heap, !.arg = output.nodes,
                                       !.refed = output.refed])
         /\ Raise(r.res)
         /\ fee' = fee - r.charged
         /\ UNCHANGED <<track, child_nodes, value_ids, restricted, component_info, persisted, next_id>>
    ELSE ReturnOk(F, r, output, InvokeTail(P, track, F.locked, r.ret, output))

\* the effect of the end of run() with result r
ReturnApply(F, P, output, r) ==
    IF r.res # "Ok"
    THEN /\ stack' = SetTop([F EXCEPT !.heap = r.heap, !.refs = r.refs])
         /\ last' = Call(F.via, r.res, Depth - 1, 2, F.locked, F.pre,
                         [NoAux EXCEPT !.phase = "run", !.left = r.left, !.ret = r.ret,
                                       !.heap = r.heap, !.arg = output.nodes,
                                       !.refed = output.refed])
         /\ Raise(r.res)
         /\ fee' = fee - r.charged
         /\ UNCHANGED <<track, child_nodes, value_ids, restricted, component_info, persisted, next_id>>
    ELSE ReturnOk(F, r, output, InvokeTail(P, track, F.locked, r.ret, output))

\* the body of the top frame returns a value; run() finishes, and on success
\* the invoke in the caller finishes too
Return ==
    /\ Running /\ Depth > 0 /\ Top.borrowed = {}
    /\ \E nodes \in ReturnSets(Top), refed \in RefSets(Top) :
       \E order \in Orders(nodes) :
          ReturnApply(Top, stack[Len(stack) - 1], Value(nodes, refed, {}, TRUE),
                      RunTail(Top, Depth, Value(nodes, refed, {}, TRUE), order, fee))

\* the body of the top frame fails by itself (a native module error, a trap
\* of the WASM guest): run() returns the error and the invoke that created
\* the frame hands it on (`?`) to the caller's body
BodyFail ==
    /\ Running /\ Depth > 0
    /\ Raise("InvokeError")
    /\ last' = Call(Top.via, "InvokeError", Depth - 1, 2, Top.locked, Top.pre,
                    [NoAux EXCEPT !.phase = "body"])
    /\ UNCHANGED <<stack, track, child_nodes, value_ids, restricted, component_info, persisted,
                   next_id, fee>>

----------------------------------------------------------------------------
(* node_create and node_globalize *)

\* HeapRootRENode::to_nodes for a set of roots: the roots and their children
to_nodes(roots) == roots \cup UNION {child_nodes[x] : x \in roots}

\* the child_nodes map after `roots` became children of `parent`
Adopt(parent, roots) ==
    [n \in AllNodes |->
        IF n = parent THEN child_nodes[n] \cup to_nodes(roots)
        ELSE IF n \in roots THEN {} ELSE child_nodes[n]]

\* faulty variant: a node ref is added for a new vault as well
CreateRefs_Vault(refs, d, n) ==
    IF Kind(n) \in {"KeyValueStore", "ResourceManager", "Component", "Vault"}
    THEN Put(refs, n, HeapPtr(d, n, NoNode)) ELSE refs

\* the node refs node_create adds for the creator
CreateRefs(refs, d, n) ==
    IF Kind(n) \in {"KeyValueStore", "ResourceManager", "Component"}
    THEN Put(refs, n, HeapPtr(d, n, NoNode)) ELSE refs

\* the child ids a new component may reference in its state
ChildSets(F) == {S \in SUBSET (F.heap \cup {bX}) : Cardinality(S) <= 1}

\* the result of node_create once its children were taken (tk)
NodeCreateResult(fees, tk) ==
    IF fees < 1 THEN "CostingError"
    ELSE IF tk.err # "Ok" THEN tk.err
    ELSE IF tk.missing # {} THEN "RENodeCreateNodeNotFound"
    ELSE "Ok"

\* the effect of node_create with result res: n is the id of the new node
NodeCreateApply(F, n, children, tk, res) ==
    /\ last' = Call("node_create", res, Depth, Consumed(fee, 1), <<>>, track.locks,
                    [NoAux EXCEPT !.new = children])
    /\ fee' = fee - Consumed(fee, 1)
    /\ UNCHANGED <<track, restricted, component_info, persisted>>
    /\ IF res = "CostingError"
       THEN /\ Raise(res)
            /\ UNCHANGED <<stack, child_nodes, value_ids, next_id>>
       ELSE IF res # "Ok"
       THEN /\ Raise(res)
            /\ stack' = SetTop([F EXCEPT !.heap = tk.heap, !.refs = tk.refs])
            /\ UNCHANGED <<child_nodes, value_ids, next_id>>
       ELSE /\ stack' = SetTop([F EXCEPT !.heap = tk.heap \cup {n},
                                         !.refs = CreateRefs(tk.refs, Depth, n)])
            /\ child_nodes' = Adopt(n, tk.taken)
            /\ value_ids' = [value_ids EXCEPT ![n] = children]
            /\ next_id' = next_id + 1
            /\ UNCHANGED status

\* node_create once its children were taken
NodeCreateTaken(F, n, children, tk) ==
    NodeCreateApply(F, n, children, tk, NodeCreateResult(fee, tk))

\* SystemApi::node_create
NodeCreate ==
    /\ Running /\ Depth > 0 /\ next_id <= MaxIds
    /\ \E kind \in CreatableKinds, children \in ChildSets(Top) :
       \E order \in Orders(children) :
          /\ kind # "Component" => children = {}
          /\ NodeCreateTaken(Top, <<kind, next_id>>, children,
                             take_available_values(Top.heap, Top.refs, order, TRUE))

\* the substates insert_non_root_nodes / node_globalize create for a node; the
\* entries of a kv-store are put with set_key_value, one by one
SubstatesOf(n) ==
    CASE Kind(n) = "Vault" -> {Sid("Vault", n)}
      [] Kind(n) = "Component" -> {Sid("ComponentInfo", n), Sid("ComponentState", n)}
      [] Kind(n) = "Package" -> {Sid("Package", n)}
      [] Kind(n) = "ResourceManager" -> {Sid("ResourceManager", n)}
      [] OTHER -> {}

\* insert_non_root_nodes panics on a node that is no vault, component or kv-store
can_insert_non_root(n) == Kind(n) \in {"Vault", "Component", "KeyValueStore"}

\* the result of node_globalize once the node was taken (tk)
NodeGlobalizeResult(fees, n, tk) ==
    IF fees < 1 THEN "CostingError"
    ELSE IF ~can_globalize(n) THEN "RENodeGlobalizeTypeNotAllowed"
    ELSE IF tk.err # "Ok" THEN tk.err
    ELSE IF tk.missing # {} THEN "panic"
    ELSE IF \E x \in child_nodes[n] : ~can_insert_non_root(x) THEN "panic"
    ELSE "Ok"

\* the effect of node_globalize with result res
NodeGlobalizeApply(F, n, tk, res) ==
    IF res = "panic" THEN Panic
    ELSE /\ last' = Call("node_globalize", res, Depth, Consumed(fee, 1), <<>>,
                         track.locks, [NoAux EXCEPT !.node = n])
         /\ fee' = fee - Consumed(fee, 1)
         /\ UNCHANGED <<value_ids, restricted, component_info, next_id>>
         /\ IF res \in {"CostingError", "RENodeGlobalizeTypeNotAllowed"}
            THEN /\ Raise(res)
                 /\ UNCHANGED <<stack, track, child_nodes, persisted>>
            ELSE IF res # "Ok"
            THEN /\ Raise(res)
                 /\ stack' = SetTop([F EXCEPT !.heap = tk.heap, !.refs = tk.refs])
                 /\ UNCHANGED <<track, child_nodes, persisted>>
            ELSE /\ stack' = SetTop([F EXCEPT !.heap = tk.heap,
                                              !.refs = Put(tk.refs, n, StorePtr(n))])
                 /\ track' = create_uuid_substates(track,
                                 UNION {SubstatesOf(x) : x \in to_nodes({n})})
                 /\ persisted' = persisted \cup to_nodes({n})
                 /\ child_nodes' = [child_nodes EXCEPT ![n] = {}]
                 /\ UNCHANGED status

\* node_globalize once the node was taken
NodeGlobalizeTaken(F, n, tk) == NodeGlobalizeApply(F, n, tk, NodeGlobalizeResult(fee, n, tk))

\* SystemApi::node_globalize
NodeGlobalize ==
    /\ Running /\ Depth > 0 /\ Top.borrowed = {}
    /\ \E n \in Top.heap \cup {c0} :
          NodeGlobalizeTaken(Top, n, take_available_values(Top.heap, Top.refs, <<n>>, FALSE))

----------------------------------------------------------------------------
(* substate_read and substate_write *)

\* the heap a Heap pointer of frame_id fid looks into, for the frame at depth
\* d whose own heap is `own`
HeapOf(fid, d, own) == IF fid = d THEN own ELSE stack[fid + 1].heap

\* to_ref / to_ref_mut followed by get_node: the root is in the frame's heap
\* and the child, if any, is one of its child nodes
HeapHas(p, d, own) ==
    /\ p.frame_id <= d
    /\ p.root \in HeapOf(p.frame_id, d, own)
    /\ (p.id = NoNode \/ p.id \in child_nodes[p.root])

\* the pointer of a node and the node ids of the value read
ReadResult(err, p, cur) == [err |-> err, ptr |-> p, cur |-> cur]

\* read_value_internal after the ComponentInfo lock attempt lk: the read
\* through the pointer
read_value_locked(p, own, d, sid, lk) ==
    IF lk.err # "Ok" THEN ReadResult("panic", p, {})
    ELSE IF p.t = "Heap" /\ ~HeapHas(p, d, own) THEN ReadResult("panic", p, {})
    ELSE IF /\ p.t = "Store" /\ sid[1] \notin {"KeyValueStoreEntry", "NonFungible"}
            /\ ~can_read_substate(lk.track, sid)
    THEN ReadResult("panic", p, {})
    ELSE ReadResult("Ok", p, IF sid[1] = "ComponentInfo" THEN {} ELSE value_ids[get_node_id(sid)])

\* CallFrame::read_value_internal: the pointer of the node and the node ids of
\* the current value; a ComponentInfo is locked for the time of the read
read_value_internal(refs, own, d, sid, t) ==
    IF get_node_id(sid) \notin DOMAIN refs
    THEN ReadResult("SubstateReadSubstateNotFound", StorePtr(get_node_id(sid)), {})
    ELSE read_value_locked(refs[get_node_id(sid)], own, d, sid,
             IF sid[1] = "ComponentInfo"
             THEN PtrAcquireLock(refs[get_node_id(sid)], sid, FALSE, FALSE, t)
             ELSE [err |-> "Ok", track |-> t])

\* faulty variant: the lock taken for the read of a ComponentInfo is kept
read_value_track_kept(refs, sid, t) ==
    IF sid[1] = "ComponentInfo" /\ get_node_id(sid) \in DOMAIN refs
    THEN PtrAcquireLock(refs[get_node_id(sid)], sid, FALSE, FALSE, t).track
    ELSE t

\* the Track after read_value_internal read a value: the shared lock taken
\* for the read of a ComponentInfo is released again
read_value_track(refs, sid, t) ==
    IF sid[1] = "ComponentInfo" /\ get_node_id(sid) \in DOMAIN refs
    THEN PtrReleaseLock(refs[get_node_id(sid)], sid, FALSE,
                        PtrAcquireLock(refs[get_node_id(sid)], sid, FALSE, FALSE, t).track).track
    ELSE t

\* the substates a body may name: of the nodes it has a reference to, or of
\* the component of the store
SubstateIds(F) ==
    {Sid(tag, n) : tag \in {"ComponentInfo", "ComponentState"},
                   n \in {x \in DOMAIN F.refs \cup {c0} : Kind(x) = "Component"}}
    \cup {Sid("KeyValueStoreEntry", n) : n \in {x \in DOMAIN F.refs : Kind(x) = "KeyValueStore"}}

\* the result of substate_read
SubstateReadResult(F, fees, sid, rv) ==
    IF fees < 1 THEN "CostingError"
    ELSE IF ~is_substate_readable(F.fn, F.recv, sid) THEN "SubstateReadNotReadable"
    ELSE rv.err

\* the effect of substate_read with result res: a ref for every child read
SubstateReadApply(F, sid, rv, res) ==
    IF res = "panic" THEN Panic
    ELSE /\ last' = Call("substate_read", res, Depth, Consumed(fee, 1), <<>>,
                         track.locks,
                         [NoAux EXCEPT !.old = rv.cur, !.target = sid,
                                       !.ptr = IF res = "Ok" THEN rv.ptr.t ELSE "None",
                                       !.info = IF res = "Ok" /\ sid[1] = "ComponentInfo"
                                                THEN component_info[get_node_id(sid)]
                                                ELSE 0])
         /\ fee' = fee - Consumed(fee, 1)
         /\ UNCHANGED <<child_nodes, value_ids, restricted, component_info, persisted, next_id>>
         /\ IF res # "Ok"
            THEN Raise(res) /\ UNCHANGED <<stack, track>>
            ELSE /\ stack' = SetTop([F EXCEPT !.refs =
                                        [c \in rv.cur |-> child(rv.ptr, c)] @@ F.refs])
                 /\ track' = read_value_track(F.refs, sid, track)
                 /\ UNCHANGED status

\* substate_read once the value was read
SubstateReadDone(F, sid, rv) ==
    SubstateReadApply(F, sid, rv, SubstateReadResult(F, fee, sid, rv))

\* SystemApi::substate_read, called by the WASM runtime for Scrypto code
SubstateRead ==
    /\ Running /\ Depth > 0 /\ Top.borrowed = {} /\ Top.fn.t = "Scrypto"
    /\ \E sid \in SubstateIds(Top) :
          SubstateReadDone(Top, sid, read_value_internal(Top.refs, Top.heap, Depth, sid, track))

\* the node ids a body may put into a value it writes to sid: nodes it owns,
\* the ids the stored value holds already, and one id that names nothing
WriteSets(F, sid) ==
    {S \in SUBSET (F.heap \cup value_ids[get_node_id(sid)] \cup {bX}) : Cardinality(S) <= 3}

\* what substate_write found: its result, the caller's heap and refs, the
\* nodes taken from the caller, the pointer written through, the old children
WriteResult(res, tk, rv) ==
    [res |-> res, heap |-> tk.heap, refs |-> tk.refs, taken |-> tk.taken,
     ptr |-> rv.ptr, cur |-> rv.cur]

\* substate_write after the current value was read (rv)
SubstateWrite_Read(sid, tk, rv) ==
    IF rv.err # "Ok" THEN WriteResult(rv.err, tk, rv)
    ELSE IF verify_stored_value_update(rv.cur, tk.missing) # "Ok"
    THEN WriteResult(verify_stored_value_update(rv.cur, tk.missing), tk, rv)
    ELSE IF sid[1] = "ComponentInfo" THEN WriteResult("panic", tk, rv)
    ELSE IF rv.ptr.t = "Store" /\ \E x \in to_nodes(tk.taken) : ~can_insert_non_root(x)
    THEN WriteResult("panic", tk, rv)
    ELSE WriteResult("Ok", tk, rv)

\* substate_write after the values of the new value were taken (tk)
SubstateWrite_Taken(d, t, sid, tk) ==
    IF tk.err # "Ok" THEN WriteResult(tk.err, tk, ReadResult("Ok", StorePtr(NoNode), {}))
    ELSE SubstateWrite_Read(sid, tk, read_value_internal(tk.refs, tk.heap, d, sid, t))

\* take_available_values is skipped for a value without node ids
NothingTaken(F) ==
    [err |-> "Ok", heap |-> F.heap, taken |-> {}, missing |-> {}, refs |-> F.refs]

\* SystemApi::substate_write up to the write itself
SubstateWriteCheck(F, d, t, sid, value, order) ==
    IF ~is_substate_writeable(F.fn, F.recv, sid)
    THEN WriteResult("SubstateWriteNotWriteable", NothingTaken(F),
                     ReadResult("Ok", StorePtr(NoNode), {}))
    ELSE IF value.nodes # {} /\ ~can_own_nodes(sid)
    THEN WriteResult("ValueNotAllowed", NothingTaken(F), ReadResult("Ok", StorePtr(NoNode), {}))
    ELSE SubstateWrite_Taken(d, t, sid,
             IF value.nodes # {} THEN take_available_values(F.heap, F.refs, order, TRUE)
             ELSE NothingTaken(F))

\* RENodeRefMut::write_value: the new value replaces the old one and the nodes
\* taken from the caller become children of the node written
write_value(F, sid, nodes, w) ==
    /\ stack' = SetTop([F EXCEPT !.heap = w.heap, !.refs = w.refs])
    /\ value_ids' = [value_ids EXCEPT ![get_node_id(sid)] = nodes]
    /\ IF w.ptr.t = "Heap"
       THEN /\ child_nodes' = Adopt(w.ptr.root, w.taken)
            /\ UNCHANGED <<track, persisted>>
       ELSE /\ child_nodes' = [x \in AllNodes |-> IF x \in w.taken THEN {} ELSE child_nodes[x]]
            /\ track' = create_uuid_substates(track,
                            UNION {SubstatesOf(x) : x \in to_nodes(w.taken)})
            /\ persisted' = persisted \cup to_nodes(w.taken)
    /\ UNCHANGED status

\* the effect of substate_write with result res
SubstateWriteApply(F, sid, nodes, w, res) ==
    IF res = "panic" THEN Panic
    ELSE /\ last' = Call("substate_write", res, Depth, Consumed(fee, 1), <<>>, track.locks,
                         [NoAux EXCEPT !.old = w.cur, !.new = nodes,
                                       !.own = nodes \cap F.heap,
                                       !.wrote = IF res = "Ok" /\ w.ptr.t = "Store"
                                                 THEN {sid} ELSE {}])
         /\ fee' = fee - Consumed(fee, 1)
         /\ UNCHANGED <<restricted, component_info, next_id>>
         /\ IF res = "CostingError"
            THEN /\ Raise(res)
                 /\ UNCHANGED <<stack, track, child_nodes, value_ids, persisted>>
            ELSE IF res # "Ok"
            THEN /\ Raise(res)
                 /\ stack' = SetTop([F EXCEPT !.heap = w.heap, !.refs = w.refs])
                 /\ UNCHANGED <<track, child_nodes, value_ids, persisted>>
            ELSE write_value(F, sid, nodes, w)

\* substate_write once its checks are done: the charge comes first
SubstateWriteDone(F, sid, nodes, w) ==
    SubstateWriteApply(F, sid, nodes, w, IF fee < 1 THEN "CostingError" ELSE w.res)

\* SystemApi::substate_write, called by the WASM runtime for Scrypto code
SubstateWrite ==
    /\ Running /\ Depth > 0 /\ Top.borrowed = {} /\ Top.fn.t = "Scrypto"
    /\ \E sid \in SubstateIds(Top) :
       \E nodes \in WriteSets(Top, sid) :
       \E order \in Orders(nodes) :
          SubstateWriteDone(Top, sid, nodes,
              SubstateWriteCheck(Top, Depth, track, sid, Value(nodes, {}, {}, TRUE), order))

----------------------------------------------------------------------------
(* substate_take *)

\* the substates a body may take: the component states and kv-store entries
\* of the nodes it has a reference to, and the non-fungible of a resource
\* manager it has a reference to
TakeIds(F) ==
    {sid \in SubstateIds(F) : sid[1] # "ComponentInfo" /\ get_node_id(sid) \in DOMAIN F.refs}
    \cup {Sid("NonFungible", n) : n \in {x \in DOMAIN F.refs : Kind(x) = "ResourceManager"}}

\* RENodeRefMut::replace_value_with_default: a non-fungible is removed, any
\* other substate is a kernel bug
can_replace_with_default(sid) == sid[1] = "NonFungible"

\* the result of substate_take once the current value was read (rv)
SubstateTakeResult(F, sid, rv) ==
    IF ~is_substate_writeable(F.fn, F.recv, sid) THEN "SubstateWriteNotWriteable"
    ELSE IF rv.err # "Ok" THEN rv.err
    ELSE IF rv.cur # {} THEN "ValueNotAllowed"
    ELSE IF ~can_replace_with_default(sid) THEN "panic"
    ELSE "Ok"

\* the effect of substate_take with result res; no cost is charged
SubstateTakeApply(F, sid, rv, res) ==
    /\ last' = Call("substate_take", res, Depth, 0, <<>>, track.locks,
                    [NoAux EXCEPT !.target = sid, !.old = rv.cur,
                                  !.phase = IF rv.err = "Ok" THEN "read" ELSE "setup",
                                  !.ptr = IF get_node_id(sid) \in DOMAIN F.refs
                                          THEN rv.ptr.t ELSE "None"])
    /\ UNCHANGED <<stack, child_nodes, value_ids, restricted, component_info, persisted,
                   next_id, fee>>
    /\ IF res = "panic" THEN status' = "panicked" /\ UNCHANGED track
       ELSE IF res # "Ok" THEN Raise(res) /\ UNCHANGED track
       ELSE /\ track' = [track EXCEPT !.non_fungibles = @ \ {sid}]
            /\ UNCHANGED status

\* substate_take once the current value was read
SubstateTakeDone(F, sid, rv) == SubstateTakeApply(F, sid, rv, SubstateTakeResult(F, sid, rv))

\* SystemApi::substate_take
SubstateTake ==
    /\ Running /\ Depth > 0 /\ Top.borrowed = {}
    /\ \E sid \in TakeIds(Top) :
          SubstateTakeDone(Top, sid, read_value_internal(Top.refs, Top.heap, Depth, sid, track))

----------------------------------------------------------------------------
(* invoke_method *)

\* the loop that locks the resource managers named in the input (shared)
RECURSIVE LockResources(_, _, _)
LockResources(t, rorder, acq) ==
    IF rorder = <<>> THEN [err |-> "Ok", track |-> t, acq |-> acq]
    ELSE LET r == Head(rorder)
             a == PtrAcquireLock(StorePtr(r), Sid("ResourceManager", r), FALSE, FALSE, t)
         IN IF a.err # "Ok" THEN [err |-> a.err, track |-> t, acq |-> acq]
            ELSE LockResources(a.track, Tail(rorder),
                     Append(acq, Locked(StorePtr(r), Sid("ResourceManager", r), FALSE)))

\* faulty variant: every node that is neither owned nor referenced is looked
\* for in the store
ReceiverPointer_AnyStore(heap, refs, d, n) ==
    IF n \in heap THEN HeapPtr(d, n, NoNode)
    ELSE IF n \in DOMAIN refs THEN refs[n]
    ELSE StorePtr(n)

\* the pointer invoke_method resolves its receiver to; t = "None" stands for
\* InvokeMethodInvalidReceiver
ReceiverPointer(heap, refs, d, n) ==
    IF n \in heap THEN HeapPtr(d, n, NoNode)
    ELSE IF n \in DOMAIN refs THEN refs[n]
    ELSE IF Kind(n) \in {"ResourceManager", "System"} THEN StorePtr(n)
    ELSE [t |-> "None", frame_id |-> 0, root |-> n, id |-> NoNode]

\* Vault::lock_fee on a vault
IsLockFee(fn, n) == Kind(n) = "Vault" /\ fn = NativeFn("Vault", "LockFee")

\* faulty variant: lock_fee accepts a vault of the heap
LockFeeAnywhere(wt, p) == FALSE

\* lock_fee needs a vault of the Track
LockFeeNeedsStore(wt, p) == wt /\ p.t = "Heap"

\* faulty variant: the primary substate is locked in shared mode
PrimaryLockShared == FALSE

\* the mode of the lock on the receiver's primary substate
PrimaryLockMutable == TRUE

\* to_ref(..) followed by a read of the node: a Heap pointer needs its node in
\* the heap, a Store pointer a readable substate
CanDeref(p, d, own, t, sid) ==
    IF p.t = "Heap" THEN HeapHas(p, d, own) ELSE can_read_substate(t, sid)

\* the parent substate invoke_method locks for a receiver: the package of a
\* component (shared), the resource manager of a bucket or vault (exclusive)
ParentLock(n) ==
    CASE Kind(n) = "Component" ->
             [any |-> TRUE, node |-> component_package(n),
              sid |-> Sid("Package", component_package(n)), mutable |-> FALSE,
              via |-> Sid("ComponentInfo", n)]
      [] Kind(n) \in {"Bucket", "Vault"} ->
             [any |-> TRUE, node |-> resource_address(n),
              sid |-> Sid("ResourceManager", resource_address(n)), mutable |-> TRUE,
              via |-> Sid(Kind(n), n)]
      [] OTHER -> [any |-> FALSE, node |-> NoNode, sid |-> Sid("none", n),
                   mutable |-> FALSE, via |-> Sid("none", n)]

\* what the receiver branch works on: the node, its pointer, its primary
\* substate, is_lock_fee, the kind of receiver and of function
ReceiverCtx(recv, fn, p) ==
    [n |-> recv.node, p |-> p, psid |-> to_primary_substate_id(fn, recv.node),
     wt |-> IsLockFee(fn, recv.node), consumed |-> recv.t = "Consumed",
     scrypto |-> fn.t = "Scrypto"]

\* temporary_locks
TemporaryLocks(c) ==
    IF c.scrypto THEN <<Locked(c.p, Sid("ComponentInfo", c.n), FALSE)>> ELSE <<>>

\* the receiver branch left with err: the Track as it stands, the locks that
\* are held, the caller's heap
ReceiverFail(c, err, t, acq, heap) ==
    [err |-> err, track |-> t, acq |-> acq, heap |-> heap, refs |-> EmptyMap,
     owned |-> {}, target |-> c.psid, store |-> c.p.t = "Store", ptr |-> c.p.t,
     lock_fee |-> c.wt, consumed |-> IF c.consumed THEN c.n ELSE NoNode,
     authzone |-> FALSE]

\* the end of the receiver branch: the temporary locks were released (rt), a
\* Consumed receiver moves to the child, the child gets a ref to the receiver,
\* to its parent and to the resource managers locked
Receiver_Done(heap, c, pl, rres, a4, rt) ==
    IF rt.err # "Ok" THEN ReceiverFail(c, "panic", a4.track, <<>>, heap)
    ELSE [err |-> "Ok", track |-> rt.track, acq |-> a4.acq,
          heap |-> IF c.consumed THEN heap \ {c.n} ELSE heap,
          refs |-> Put([r \in (IF pl.any THEN {pl.node} ELSE {}) \cup rres |-> StorePtr(r)],
                       c.n, c.p),
          owned |-> IF c.consumed THEN {c.n} ELSE {},
          target |-> c.psid, store |-> c.p.t = "Store", ptr |-> c.p.t, lock_fee |-> c.wt,
          consumed |-> IF c.consumed THEN c.n ELSE NoNode, authzone |-> FALSE]

\* the receiver branch after the resource managers of the input were locked
\* (a4): receiver_auth, then the move of a Consumed receiver
Receiver_Auth(heap, authorized, c, pl, rres, a4) ==
    IF a4.err # "Ok" THEN ReceiverFail(c, a4.err, a4.track, a4.acq \o TemporaryLocks(c), heap)
    ELSE IF ~authorized
    THEN ReceiverFail(c, "NotAuthorized", a4.track, a4.acq \o TemporaryLocks(c), heap)
    ELSE IF c.consumed /\ c.n \notin heap
    THEN ReceiverFail(c, "InvokeMethodInvalidReceiver", a4.track,
                      a4.acq \o TemporaryLocks(c), heap)
    ELSE Receiver_Done(heap, c, pl, rres, a4, ReleaseAll(a4.track, TemporaryLocks(c)))

\* the receiver branch after the parent lock attempt (a3), acq3 the locks
\* held if it succeeded
Receiver_Resources(heap, fn, input, rorder, authorized, c, acq1, t2, pl, a3, acq3) ==
    IF a3.err # "Ok" THEN ReceiverFail(c, a3.err, t2, acq1 \o TemporaryLocks(c), heap)
    ELSE Receiver_Auth(heap, authorized, c, pl,
             IF fn.t = "Native" THEN input.res ELSE {},
             IF fn.t = "Native" THEN LockResources(a3.track, rorder, acq3)
             ELSE [err |-> "Ok", track |-> a3.track, acq |-> acq3])

\* the receiver branch at the parent lock pl: the parent is read from the
\* receiver's node
Receiver_Parent(d, heap, fn, input, rorder, authorized, c, acq1, t2, pl) ==
    IF pl.any /\ Kind(c.n) = "Bucket" /\ c.p.t = "Store"
    THEN ReceiverFail(c, "panic", t2, <<>>, heap)
    ELSE IF pl.any /\ ~CanDeref(c.p, d, heap, t2, pl.via)
    THEN ReceiverFail(c, "panic", t2, <<>>, heap)
    ELSE Receiver_Resources(heap, fn, input, rorder, authorized, c, acq1, t2, pl,
             IF pl.any THEN PtrAcquireLock(StorePtr(pl.node), pl.sid, pl.mutable, FALSE, t2)
             ELSE [err |-> "Ok", track |-> t2],
             IF pl.any THEN Append(acq1, Locked(StorePtr(pl.node), pl.sid, FALSE)) ELSE acq1)

\* the receiver branch after the temporary ComponentInfo lock attempt (a2):
\* a Scrypto method must be of the component's blueprint
Receiver_Actor(d, heap, fn, input, rorder, authorized, c, acq1, t1, a2) ==
    IF a2.err # "Ok" THEN ReceiverFail(c, a2.err, t1, acq1, heap)
    ELSE IF c.scrypto /\ ~CanDeref(c.p, d, heap, a2.track, Sid("ComponentInfo", c.n))
    THEN ReceiverFail(c, "panic", t1, <<>>, heap)
    ELSE IF c.scrypto /\ ~(fn.pkg = component_package(c.n) /\ fn.bp = component_blueprint(c.n))
    THEN ReceiverFail(c, "MethodDoesNotExist", a2.track, acq1 \o TemporaryLocks(c), heap)
    ELSE Receiver_Parent(d, heap, fn, input, rorder, authorized, c, acq1, a2.track,
                         ParentLock(c.n))

\* the receiver branch after the primary lock attempt (a1)
Receiver_Primary(d, t0, heap, fn, input, rorder, authorized, c, a1) ==
    IF a1.err # "Ok" THEN ReceiverFail(c, a1.err, t0, <<>>, heap)
    ELSE Receiver_Actor(d, heap, fn, input, rorder, authorized, c,
             <<Locked(c.p, c.psid, c.wt)>>, a1.track,
             IF c.scrypto
             THEN PtrAcquireLock(c.p, Sid("ComponentInfo", c.n), FALSE, FALSE, a1.track)
             ELSE [err |-> "Ok", track |-> a1.track])

\* the receiver branch once the pointer is resolved: the primary substate and
\* its lock
Receiver_Resolved(d, t, heap, fn, input, rorder, authorized, c) ==
    IF c.p.t = "None" THEN ReceiverFail(c, "InvokeMethodInvalidReceiver", t, <<>>, heap)
    ELSE IF c.psid[1] = "none" THEN ReceiverFail(c, "MethodDoesNotExist", t, <<>>, heap)
    ELSE IF LockFeeNeedsStore(c.wt, c.p)
    THEN ReceiverFail(c, "LockFeeError(RENodeNotInTrack)", t, <<>>, heap)
    ELSE Receiver_Primary(d, t, heap, fn, input, rorder, authorized, c,
                          PtrAcquireLock(c.p, c.psid, PrimaryLockMutable, c.wt, t))

\* the Ref / Consumed branch of invoke_method, from the receiver's resolution
\* to the release of the temporary locks
ReceiverSetup(d, t, heap, refs, recv, fn, input, rorder, authorized) ==
    Receiver_Resolved(d, t, heap, fn, input, rorder, authorized,
                      ReceiverCtx(recv, fn, ReceiverPointer(heap, refs, d, recv.node)))

\* the AuthZoneRef branch of invoke_method after the resource managers of the
\* input were locked (a): the branch yields Some(auth_zone), the caller's
AuthZone_Locked(heap, input, a) ==
    [err |-> a.err, track |-> a.track, acq |-> a.acq, heap |-> heap,
     refs |-> [r \in input.res |-> StorePtr(r)],
     owned |-> {}, target |-> <<"AuthZone", NoNode>>, store |-> FALSE, ptr |-> "None",
     lock_fee |-> FALSE, consumed |-> NoNode, authzone |-> a.err = "Ok"]

\* the AuthZoneRef branch of invoke_method
AuthZoneSetup(F, t, heap, input, rorder) ==
    IF ~F.auth
    THEN AuthZone_Locked(heap, input, [err |-> "AuthZoneDoesNotExist", track |-> t, acq |-> <<>>])
    ELSE AuthZone_Locked(heap, input, LockResources(t, rorder, <<>>))

\* the primary substate the receiver branch aimed at, for the record
WithTarget(rs, o) ==
    [o EXCEPT !.target = rs.target, !.store = rs.store, !.ptr = rs.ptr,
              !.lock_fee = rs.lock_fee, !.consumed = rs.consumed]

\* faulty variant: every child of invoke_method gets an auth zone
ChildAuthZone_Always(fn) == TRUE

\* the auth zone CallFrame::new is given by invoke_method: Some(AuthZone::new())
\* for a Scrypto function, None for a native one
ChildAuthZone(fn) == fn.t = "Scrypto"

\* invoke_method after the receiver branch (rs): the references passed, then
\* the child frame, which run() starts with maybe_authzone
InvokeMethod_Checked(F, t, recv, fn, input, tk, rs) ==
    IF rs.err # "Ok" THEN Outcome(rs.err, 2, rs.heap, tk.refs, rs.track, rs.acq, {}, F)
    ELSE IF \E c \in input.refed : c \notin DOMAIN tk.refs
    THEN Outcome("InvokeMethodInvalidReferencePass", 2, rs.heap, tk.refs, rs.track, rs.acq,
                 {}, F)
    ELSE Outcome("Ok", 2, rs.heap, tk.refs, rs.track, rs.acq,
                 RestrictedProofs(tk.taken),
                 [NewFrame(fn, recv, ChildAuthZone(fn), tk.taken \cup rs.owned,
                           PassReferences(tk.refs, input.refed) @@ rs.refs,
                           rs.acq, "invoke_method", t.locks)
                     EXCEPT !.maybe_authzone = rs.authzone])

\* invoke_method after the receiver branch, with the substate it aimed at
InvokeMethod_Done(F, t, recv, fn, input, tk, rs) ==
    WithTarget(rs, InvokeMethod_Checked(F, t, recv, fn, input, tk, rs))

\* invoke_method after the values of the input were taken (tk)
InvokeMethod_Taken(F, d, t, recv, fn, input, rorder, authorized, tk) ==
    IF tk.err # "Ok" THEN Outcome(tk.err, 2, tk.heap, tk.refs, t, <<>>, {}, F)
    ELSE IF tk.missing # {} THEN Outcome("RENodeNotFound", 2, tk.heap, tk.refs, t, <<>>, {}, F)
    ELSE InvokeMethod_Done(F, t, recv, fn, input, tk,
             IF recv.t = "AuthZoneRef" THEN AuthZoneSetup(F, t, tk.heap, input, rorder)
             ELSE ReceiverSetup(d, t, tk.heap, tk.refs, recv, fn, input, rorder, authorized))

\* invoke_method up to the construction of the child frame.  fees is the
\* balance of the fee reserve, order and rorder the iteration orders of
\* input.node_ids() and input.resource_addresses, authorized the verdict of
\* AuthModule::receiver_auth.
InvokeMethodSetup(F, d, t, recv, fn, input, order, rorder, fees, authorized) ==
    IF DepthLimitReached(d)
    THEN Outcome("MaxCallDepthLimitReached", 0, F.heap, F.refs, t, <<>>, {}, F)
    ELSE IF fees < 2
    THEN Outcome("CostingError", Consumed(fees, 2), F.heap, F.refs, t, <<>>, {}, F)
    ELSE IF process_call_data(input) # "Ok"
    THEN Outcome(process_call_data(input), 2, F.heap, F.refs, t, <<>>, {}, F)
    ELSE InvokeMethod_Taken(F, d, t, recv, fn, input, rorder, authorized,
                            take_available_values(F.heap, F.refs, order, FALSE))

\* the receivers a body may name: nodes it owns or has a reference to, the
\* resource manager of the store, a component that does not exist, or the
\* frame's auth zone
Receivers(F) ==
    {RefRecv(n) : n \in F.heap \cup DOMAIN F.refs \cup {r0, cX}}
    \cup {ConsumedRecv(n) : n \in F.heap \cup {c0}}
    \cup {AuthZoneRef}

\* the functions a body may name for a receiver
MethodIds(recv) ==
    IF recv.t = "AuthZoneRef" THEN {NativeFn("AuthZone", "Push")}
    ELSE {ScryptoFn(pk0, "B", "f"), NativeFn(Kind(recv.node), "Method")}
         \cup (IF Kind(recv.node) = "Component" THEN {ScryptoFn(pk0, "Z", "f")} ELSE {})
         \cup (IF Kind(recv.node) = "Vault" THEN {NativeFn("Vault", "LockFee")} ELSE {})

\* SystemApi::invoke_method up to the start of the child frame's body.  A
\* denial by receiver_auth is a step of its own only where it decides the
\* result: a set-up that ends before or after the check with another result
\* takes the same step under both verdicts.
InvokeMethod ==
    /\ Running /\ Depth > 0 /\ Top.borrowed = {}
    /\ \E recv \in Receivers(Top), input \in CallInputs(Top, 1), authorized \in BOOLEAN :
       \E fn \in MethodIds(recv), order \in Orders(input.nodes),
          rorder \in Orders(input.res) :
          /\ authorized \/ InvokeMethodSetup(Top, Depth, track, recv, fn, input, order,
                                             rorder, fee, authorized).res = "NotAuthorized"
          /\ ApplyInvoke("invoke_method", input,
                 InvokeMethodSetup(Top, Depth, track, recv, fn, input, order, rorder, fee,
                                   authorized))

----------------------------------------------------------------------------
(* substate_borrow_mut and substate_return_mut *)

\* Track::take_substate / Track::write_substate: the value leaves the store
\* and comes back
take_substate(t, sid) == [t EXCEPT !.taken = @ \cup {sid}]
write_substate(t, sid) == [t EXCEPT !.taken = @ \ {sid}, !.substates = @ \cup {sid}]

\* the substates native code borrows: the primary substate of a node it has
\* a reference to
BorrowIds(F) ==
    {to_primary_substate_id(F.fn, n) : n \in DOMAIN F.refs}
    \cup {Sid("ComponentState", n) : n \in {x \in DOMAIN F.refs : Kind(x) = "Component"}}

\* a NativeSubstateRef: the pointer it was borrowed through and its substate
NativeSubstateRef(p, sid) == [ptr |-> p, sid |-> sid]

\* faulty variant: a heap root is left in the heap of the frame that owns it
borrow_native_ref_left(p, d, own, sid, t) ==
    IF p.t = "Heap"
    THEN IF p.frame_id <= d /\ p.root \in HeapOf(p.frame_id, d, own)
         THEN [err |-> "Ok", track |-> t, root |-> {}, at |-> d + 1]
         ELSE [err |-> "panic", track |-> t, root |-> {}, at |-> d + 1]
    ELSE IF can_take_substate(t, sid)
         THEN [err |-> "Ok", track |-> take_substate(t, sid), root |-> {}, at |-> d + 1]
         ELSE [err |-> "panic", track |-> t, root |-> {}, at |-> d + 1]

\* RENodePointer::borrow_native_ref: a heap root leaves its frame's heap, a
\* Track substate is taken out of the Track
borrow_native_ref(p, d, own, sid, t) ==
    IF p.t = "Heap"
    THEN IF p.frame_id <= d /\ p.root \in HeapOf(p.frame_id, d, own)
         THEN [err |-> "Ok", track |-> t, root |-> {p.root}, at |-> p.frame_id + 1]
         ELSE [err |-> "panic", track |-> t, root |-> {}, at |-> d + 1]
    ELSE IF can_take_substate(t, sid)
         THEN [err |-> "Ok", track |-> take_substate(t, sid), root |-> {}, at |-> d + 1]
         ELSE [err |-> "panic", track |-> t, root |-> {}, at |-> d + 1]

\* the result of substate_borrow_mut
SubstateBorrowResult(F, fees, sid, b) ==
    IF fees < 1 THEN "CostingError"
    ELSE IF ~is_substate_readable(F.fn, F.recv, sid) THEN "panic"
    ELSE IF get_node_id(sid) \notin DOMAIN F.refs THEN "panic"
    ELSE b.err

\* the effect of substate_borrow_mut with result res
SubstateBorrowApply(F, p, sid, b, res) ==
    IF res = "panic" THEN Panic
    ELSE /\ last' = Call("substate_borrow_mut", res, Depth, Consumed(fee, 1), <<>>,
                         track.locks, NoAux)
         /\ fee' = fee - Consumed(fee, 1)
         /\ UNCHANGED <<child_nodes, value_ids, restricted, component_info, persisted, next_id>>
         /\ IF res # "Ok"
            THEN Raise(res) /\ UNCHANGED <<stack, track>>
            ELSE /\ stack' = [SetTop([F EXCEPT !.borrowed = {NativeSubstateRef(p, sid)}])
                                 EXCEPT ![b.at].heap = @ \ b.root]
                 /\ track' = b.track
                 /\ UNCHANGED status

\* substate_borrow_mut through the pointer p of the node
SubstateBorrowAt(F, p, sid, b) ==
    SubstateBorrowApply(F, p, sid, b, SubstateBorrowResult(F, fee, sid, b))

\* SystemApi::substate_borrow_mut, called by native code only
SubstateBorrowMut ==
    /\ Running /\ Depth > 0 /\ Top.borrowed = {} /\ Top.fn.t = "Native"
    /\ \E sid \in BorrowIds(Top) :
          SubstateBorrowAt(Top, Top.refs[get_node_id(sid)], sid,
              borrow_native_ref(Top.refs[get_node_id(sid)], Depth, Top.heap, sid, track))

\* faulty variant: a heap root goes back into the heap of the running frame
return_to_location_own(F, r) ==
    IF r.ptr.t = "Heap"
    THEN /\ stack' = SetTop([F EXCEPT !.borrowed = {}, !.heap = @ \cup {r.ptr.root}])
         /\ UNCHANGED track
    ELSE /\ stack' = SetTop([F EXCEPT !.borrowed = {}])
         /\ track' = write_substate(track, r.sid)

\* NativeSubstateRef::return_to_location: the heap root goes back into its
\* frame's heap, the Track substate is written back
return_to_location(F, r) ==
    IF r.ptr.t = "Heap"
    THEN /\ stack' = [SetTop([F EXCEPT !.borrowed = {}])
                         EXCEPT ![r.ptr.frame_id + 1].heap = @ \cup {r.ptr.root}]
         /\ UNCHANGED track
    ELSE /\ stack' = SetTop([F EXCEPT !.borrowed = {}])
         /\ track' = write_substate(track, r.sid)

\* faulty variant: the component of a Track substate can be changed as well
component_mut_any(r) == TRUE

\* NativeSubstateRef::component: native code gets a mutable component from a
\* ref to a heap node only
component_mut(r) == r.ptr.t = "Heap"

\* the info a borrowed ComponentInfo may hold when native code returns it:
\* what it held, or with an access check added
ReturnedInfo(r) ==
    IF r.sid[1] = "ComponentInfo" /\ component_mut(r)
    THEN {component_info[get_node_id(r.sid)], 1}
    ELSE {component_info[get_node_id(r.sid)]}

\* the effect of substate_return_mut of r, which holds the info v
SubstateReturnApply(F, r, v, res) ==
    /\ last' = Call("substate_return_mut", res, Depth, Consumed(fee, 1), <<>>, track.locks,
                    [NoAux EXCEPT !.wrote = IF res = "Ok" /\ r.ptr.t = "Store"
                                            THEN {r.sid} ELSE {}])
    /\ fee' = fee - Consumed(fee, 1)
    /\ UNCHANGED <<child_nodes, value_ids, restricted, persisted, next_id>>
    /\ IF res # "Ok"
       THEN Raise(res) /\ UNCHANGED <<stack, track, component_info>>
       ELSE /\ return_to_location(F, r)
            /\ component_info' = [component_info EXCEPT ![get_node_id(r.sid)] = v]
            /\ UNCHANGED status

\* SystemApi::substate_return_mut
SubstateReturnMut ==
    /\ Running /\ Depth > 0
    /\ \E r \in Top.borrowed :
       \E v \in ReturnedInfo(r) :
          SubstateReturnApply(Top, r, v, IF fee < 1 THEN "CostingError" ELSE "Ok")

Next ==
    \/ Execute
    \/ InvokeFunction
    \/ InvokeMethod
    \/ Return
    \/ BodyFail
    \/ NodeCreate
    \/ NodeGlobalize
    \/ SubstateRead
    \/ SubstateWrite
    \/ SubstateTake
    \/ SubstateBorrowMut
    \/ SubstateReturnMut

Spec == Init /\ [][Next]_vars

\* the state after construction for a transaction whose fee reserve is
\* loaded with f cost units
InitFee(f) ==
    /\ stack = <<new_root>>
    /\ track = [substates |-> {Sid("Package", pk0), Sid("ComponentInfo", c0),
                               Sid("ComponentState", c0), Sid("Vault", v0),
                               Sid("ResourceManager", r0)},
                locks |-> EmptyMap, touched |-> {}, taken |-> {}, flushed |-> {},
                created |-> {}, non_fungibles |-> {Sid("NonFungible", r0)}]
    /\ child_nodes = [n \in AllNodes |-> {}]
    /\ value_ids = [n \in AllNodes |-> IF n = c0 THEN {v0, k0} ELSE {}]
    /\ restricted = {}
    /\ component_info = [n \in AllNodes |-> 0]
    /\ persisted = StoreNodes
    /\ next_id = 1
    /\ fee = f
    /\ status = "running"
    /\ last = NoCall

\* the same machine run with the smaller fee reserves: shorter transactions
SpecSmall == InitFee(SmallFee) /\ [][Next]_vars

SpecMedium == InitFee(MediumFee) /\ [][Next]_vars

SpecLarge == InitFee(LargeFee) /\ [][Next]_vars

----------------------------------------------------------------------------
(* verify_stored_value_update on its own: the two sets are drawn at the     *)
(* start, one step applies the function in some iteration order of the two  *)
(* HashSets and records the error and the node id it carries in `last`.     *)

\* the node ids the two sets are drawn from
VerifyNodes == {v0, k0, c0, bX}

\* the first element of the sequence s that is not in S; NoNode if all are
RECURSIVE FirstNotIn(_, _)
FirstNotIn(s, S) ==
    IF s = <<>> THEN NoNode
    ELSE IF Head(s) \notin S THEN Head(s) ELSE FirstNotIn(Tail(s), S)

\* the result of the two loops: x is what the loop over old found, y what the
\* loop over missing found
VerifyFound(x, y) ==
    IF x # NoNode THEN [err |-> "StoredNodeRemoved", id |-> x]
    ELSE IF y # NoNode THEN [err |-> "RENodeNotFound", id |-> y]
    ELSE [err |-> "Ok", id |-> NoNode]

\* faulty variant: the loop over missing runs first
verify_stored_value_update_swapped(old, missing, oorder, morder) ==
    IF FirstNotIn(morder, old) # NoNode
    THEN [err |-> "RENodeNotFound", id |-> FirstNotIn(morder, old)]
    ELSE VerifyFound(FirstNotIn(oorder, missing), NoNode)

\* verify_stored_value_update with the node id its error carries: oorder and
\* morder are the iteration orders of old and missing
verify_stored_value_update_in(old, missing, oorder, morder) ==
    VerifyFound(FirstNotIn(oorder, missing), FirstNotIn(morder, old))

VerifyInit ==
    /\ stack = <<new_root>>
    /\ track = [substates |-> {}, locks |-> EmptyMap, touched |-> {}, taken |-> {},
                flushed |-> {}, created |-> {}, non_fungibles |-> {}]
    /\ child_nodes = [n \in AllNodes |-> {}]
    /\ value_ids = [n \in AllNodes |-> {}]
    /\ restricted = {}
    /\ component_info = [n \in AllNodes |-> 0]
    /\ persisted = {}
    /\ next_id = 1
    /\ fee = MaxFee
    /\ status = "running"
    /\ \E old \in SUBSET VerifyNodes, missing \in SUBSET VerifyNodes :
          last = [op |-> "none", old |-> old, missing |-> missing,
                  res |-> "none", id |-> NoNode]

VerifyApply ==
    /\ status = "running"
    /\ \E oorder \in Orders(last.old), morder \in Orders(last.missing) :
          last' = [last EXCEPT
                      !.op = "verify_stored_value_update",
                      !.res = verify_stored_value_update_in(last.old, last.missing,
                                                            oorder, morder).err,
                      !.id = verify_stored_value_update_in(last.old, last.missing,
                                                           oorder, morder).id]
    /\ status' = "finished"
    /\ UNCHANGED <<stack, track, child_nodes, value_ids, restricted, component_info, persisted, next_id, fee>>

SpecVerify == VerifyInit /\ [][VerifyApply]_vars

----------------------------------------------------------------------------
(* take_available_values and the pick of the first missing id on their own: *)
(* the frame's heap, the node ids of the value and persist_only are drawn   *)
(* at the start, one step applies them in some iteration order of node_ids  *)
(* and of the missing set and records the result in `last`.                 *)

\* the nodes the heap is drawn from, and the ids a value may name
TakeHeapNodes == {<<"Bucket", 1>>, <<"Vault", 1>>, <<"Proof", 1>>}
TakeIdNodes == TakeHeapNodes \cup {bX, cX}

\* missing.drain().nth(0) after take_available_values returned tk: morder is
\* the iteration order of the missing set
first_missing_value(tk, morder) ==
    IF tk.err # "Ok" THEN [err |-> tk.err, id |-> NoNode, heap |-> tk.heap, refs |-> tk.refs]
    ELSE IF morder # <<>>
    THEN [err |-> "RENodeNotFound", id |-> Head(morder), heap |-> tk.heap, refs |-> tk.refs]
    ELSE [err |-> "Ok", id |-> NoNode, heap |-> tk.heap, refs |-> tk.refs]

\* the results of the call for the node ids `ids`, one per iteration order
TakeResults(F, ids, persist_only) ==
    UNION {{first_missing_value(take_available_values(F.heap, F.refs, order, persist_only),
                                morder) :
               morder \in Orders(take_available_values(F.heap, F.refs, order,
                                                       persist_only).missing)} :
           order \in Orders(ids)}

TakeInit ==
    /\ \E heap \in SUBSET TakeHeapNodes :
          stack = <<[new_root EXCEPT !.heap = heap]>>
    /\ track = [substates |-> {}, locks |-> EmptyMap, touched |-> {}, taken |-> {},
                flushed |-> {}, created |-> {}, non_fungibles |-> {}]
    /\ child_nodes = [n \in AllNodes |-> {}]
    /\ value_ids = [n \in AllNodes |-> {}]
    /\ restricted = {}
    /\ component_info = [n \in AllNodes |-> 0]
    /\ persisted = {}
    /\ next_id = 1
    /\ fee = MaxFee
    /\ status = "running"
    /\ \E ids \in SUBSET TakeIdNodes, persist_only \in BOOLEAN :
          last = [op |-> "none", ids |-> ids, persist_only |-> persist_only,
                  res |-> "none", id |-> NoNode]

TakeApply ==
    /\ status = "running"
    /\ \E r \in TakeResults(Top, last.ids, last.persist_only) :
          /\ stack' = SetTop([Top EXCEPT !.heap = r.heap, !.refs = r.refs])
          /\ last' = [last EXCEPT !.op = "take_available_values", !.res = r.err, !.id = r.id]
    /\ status' = "finished"
    /\ UNCHANGED <<track, child_nodes, value_ids, restricted, component_info, persisted,
                   next_id, fee>>

SpecTake == TakeInit /\ [][TakeApply]_vars

----------------------------------------------------------------------------
(* new_root on its own: the signer keys and is_system are drawn at the      *)
(* start, one step builds the root frame and records its auth zone in       *)
(* `last`.                                                                  *)

\* the most signer keys a transaction carries
MaxSigners == 3
\* the public keys the signers are drawn from
SignerKeys == {"key_a", "key_b", "key_c"}

\* NonFungibleId::from_bytes(public_key.to_vec())
NonFungibleIdOf(public_key) == <<"NonFungibleId", public_key>>

\* the proof a bucket of non-fungibles of `resource` creates
ProofOf(resource, ids, bucket_id) ==
    [resource |-> resource, ids |-> ids, bucket_id |-> bucket_id]

\* the BTreeSet signer_non_fungible_ids
signer_non_fungible_ids(signer_public_keys) ==
    {NonFungibleIdOf(signer_public_keys[i]) : i \in 1..Len(signer_public_keys)}

\* faulty variant: the ECDSA proof is pushed for an empty signer set as well
initial_auth_zone_proofs_always(signer_public_keys, is_system, bucket_id) ==
    <<ProofOf("ECDSA_TOKEN", signer_non_fungible_ids(signer_public_keys),
              "ECDSA_TOKEN_BUCKET_ID")>>
    \o (IF is_system
        THEN <<ProofOf("SYSTEM_TOKEN", {<<"NonFungibleId", 0>>}, bucket_id)>>
        ELSE <<>>)

\* the Vec initial_auth_zone_proofs of new_root; bucket_id is the id the
\* IdAllocator hands out for the system bucket
initial_auth_zone_proofs(signer_public_keys, is_system, bucket_id) ==
    (IF signer_non_fungible_ids(signer_public_keys) # {}
     THEN <<ProofOf("ECDSA_TOKEN", signer_non_fungible_ids(signer_public_keys),
                    "ECDSA_TOKEN_BUCKET_ID")>>
     ELSE <<>>)
    \o (IF is_system
        THEN <<ProofOf("SYSTEM_TOKEN", {<<"NonFungibleId", 0>>}, bucket_id)>>
        ELSE <<>>)

\* the state before the root frame is built
RootInit ==
    /\ stack = <<>>
    /\ track = [substates |-> {}, locks |-> EmptyMap, touched |-> {}, taken |-> {},
                flushed |-> {}, created |-> {}, non_fungibles |-> {}]
    /\ child_nodes = [n \in AllNodes |-> {}]
    /\ value_ids = [n \in AllNodes |-> {}]
    /\ restricted = {}
    /\ component_info = [n \in AllNodes |-> 0]
    /\ persisted = {}
    /\ next_id = 1
    /\ fee = MaxFee
    /\ status = "running"
    /\ \E n \in 0..MaxSigners :
       \E signer_public_keys \in [1..n -> SignerKeys], is_system \in BOOLEAN :
          last = [op |-> "none", signer_public_keys |-> signer_public_keys,
                  is_system |-> is_system, depth |-> 0, auth_zone |-> <<>>,
                  parent_heap_nodes |-> <<>>, caller_auth_zone |-> "None"]

\* CallFrame::new_root: the arguments it hands to CallFrame::new
RootApply ==
    /\ status = "running" /\ stack = <<>>
    /\ stack' = <<new_root>>
    /\ last' = [last EXCEPT
                   !.op = "new_root", !.depth = 0,
                   !.auth_zone = initial_auth_zone_proofs(last.signer_public_keys,
                                                          last.is_system, next_id),
                   !.parent_heap_nodes = <<>>, !.caller_auth_zone = "None"]
    /\ next_id' = IF last.is_system THEN next_id + 1 ELSE next_id
    /\ status' = "finished"
    /\ UNCHANGED <<track, child_nodes, value_ids, restricted, component_info, persisted, fee>>

SpecRoot == RootInit /\ [][RootApply]_vars

----------------------------------------------------------------------------
(* check_access_rule on its own: the frame's heap, its auth zone, a Track    *)
(* lock, the rule and the proof ids are drawn at the start, one step applies *)
(* the call and records its result in `last`.                                *)

\* the most proof ids one call names
MaxProofIds == 2
\* the proof ids a body may name, and the roots the heap is drawn from
RuleProofIds == {1, 2, 9}
RuleHeapNodes == {<<"Proof", 1>>, <<"Proof", 2>>, <<"Bucket", 1>>, <<"Bucket", 9>>}

\* the access rules: AllowAll, DenyAll, and the requirement of a proof
AccessRules == {<<"AllowAll", 0>>, <<"DenyAll", 0>>} \cup {<<"Require", i>> : i \in RuleProofIds}

\* Proof::clone: another proof object of the same proof
CloneProof(n) == [copy_of |-> n]

\* AuthZone::new_with_proofs
new_with_proofs(proofs) == proofs

\* MethodAuthorization::check against one auth zone
MethodAuthorizationCheck(access_rule, auth_zone) ==
    CASE access_rule[1] = "AllowAll" -> TRUE
      [] access_rule[1] = "DenyAll" -> FALSE
      [] OTHER -> \E i \in 1..Len(auth_zone) :
                     auth_zone[i].copy_of = <<"Proof", access_rule[2]>>

\* AuthZone::main(Clear): every proof of the zone is dropped
AuthZoneClear(auth_zone) == <<>>

\* faulty variant: the proofs are moved out of the heap into the scratch zone
check_access_rule_moved(F, t, access_rule, proof_ids) ==
    LET missing == {i \in 1..Len(proof_ids) : <<"Proof", proof_ids[i]>> \notin F.heap}
        zone == new_with_proofs([i \in 1..Len(proof_ids) |->
                                     CloneProof(<<"Proof", proof_ids[i]>>)])
    IN IF missing # {}
       THEN [err |-> "ProofNotFound",
             id |-> proof_ids[CHOOSE i \in missing : \A j \in missing : i <= j],
             is_authorized |-> FALSE, simulated_auth_zone |-> <<>>, frame |-> F,
             track |-> t]
       ELSE [err |-> "Ok", id |-> 0,
             is_authorized |-> MethodAuthorizationCheck(access_rule, zone),
             simulated_auth_zone |-> AuthZoneClear(zone),
             frame |-> [F EXCEPT !.heap = @ \ {<<"Proof", proof_ids[i]>> :
                                                  i \in 1..Len(proof_ids)}],
             track |-> t]

\* SystemApi::check_access_rule in the frame F: the proofs are looked up in
\* the order of proof_ids and the first one that is no root of the heap is
\* reported; the rule is checked against a zone of clones, which is cleared
check_access_rule(F, t, access_rule, proof_ids) ==
    LET missing == {i \in 1..Len(proof_ids) : <<"Proof", proof_ids[i]>> \notin F.heap}
        zone == new_with_proofs([i \in 1..Len(proof_ids) |->
                                     CloneProof(<<"Proof", proof_ids[i]>>)])
    IN IF missing # {}
       THEN [err |-> "ProofNotFound",
             id |-> proof_ids[CHOOSE i \in missing : \A j \in missing : i <= j],
             is_authorized |-> FALSE, simulated_auth_zone |-> <<>>, frame |-> F,
             track |-> t]
       ELSE [err |-> "Ok", id |-> 0,
             is_authorized |-> MethodAuthorizationCheck(access_rule, zone),
             simulated_auth_zone |-> AuthZoneClear(zone), frame |-> F, track |-> t]

RuleInit ==
    /\ \E heap \in SUBSET RuleHeapNodes, zone \in {<<>>, <<"proof_a">>}, auth \in BOOLEAN :
          stack = <<new_root,
                    [NewFrame(ScryptoFn(pk0, "B", "f"), NoReceiver, auth, heap,
                              [c \in {c0} |-> StorePtr(c0)], <<>>, "invoke_function",
                              EmptyMap)
                        EXCEPT !.zone = IF auth THEN zone ELSE <<>>]>>
    /\ \E held \in BOOLEAN :
          track = [substates |-> {Sid("Package", pk0)},
                   locks |-> IF held
                             THEN [x \in {Sid("Package", pk0)} |->
                                      [mutable |-> FALSE, count |-> 1, write_through |-> FALSE]]
                             ELSE EmptyMap,
                   touched |-> {}, taken |-> {}, flushed |-> {}, created |-> {},
                   non_fungibles |-> {}]
    /\ child_nodes = [n \in AllNodes |-> {}]
    /\ value_ids = [n \in AllNodes |-> {}]
    /\ restricted = {}
    /\ component_info = [n \in AllNodes |-> 0]
    /\ persisted = {}
    /\ next_id = 1
    /\ fee = MaxFee
    /\ status = "running"
    /\ \E n \in 0..MaxProofIds :
       \E proof_ids \in [1..n -> RuleProofIds], access_rule \in AccessRules :
          last = [op |-> "none", access_rule |-> access_rule, proof_ids |-> proof_ids,
                  res |-> "none", id |-> 0, is_authorized |-> FALSE,
                  simulated_auth_zone |-> <<>>]

RuleApply ==
    /\ status = "running"
    /\ LET r == check_access_rule(Top, track, last.access_rule, last.proof_ids)
       IN /\ stack' = SetTop(r.frame)
          /\ track' = r.track
          /\ last' = [last EXCEPT !.op = "check_access_rule", !.res = r.err, !.id = r.id,
                                  !.is_authorized = r.is_authorized,
                                  !.simulated_auth_zone = r.simulated_auth_zone]
    /\ status' = "finished"
    /\ UNCHANGED <<child_nodes, value_ids, restricted, component_info, persisted,
                   next_id, fee>>

SpecRule == RuleInit /\ [][RuleApply]_vars

----------------------------------------------------------------------------
(* RadixEngineDB: the listing of the keys of the database on its own.  The   *)
(* keys in the database and a range are drawn at the start, one step lists   *)
(* the range, the packages, the components and the resource managers and     *)
(* records the results in `last`.                                            *)

\* the most keys the database holds
MaxKeys == 3

\* the bytes an address is made of (an address has one byte here, 26 in the
\* code): the lowest, the highest and one between
AddressBytes == {0, 7, 255}

\* SubstateId of the store, with the entity type of its address; id is the
\* non-fungible id of a NonFungible substate
DbSubstateId(kind, entity, addr, id) == [kind |-> kind, entity |-> entity, addr |-> addr, id |-> id]

\* the substate ids the database is drawn from
DbSubstateIds ==
    {DbSubstateId("Package", "Normal", <<a>>, <<>>) : a \in AddressBytes}
    \cup {DbSubstateId("ResourceManager", "Normal", <<a>>, <<>>) : a \in {0, 255}}
    \cup {DbSubstateId("ComponentState", e, <<a>>, <<>>) :
             e \in {"System", "Account", "Normal"}, a \in {0, 255}}
    \cup {DbSubstateId("ComponentInfo", "Normal", <<a>>, <<>>) : a \in {0, 255}}
    \cup {DbSubstateId("NonFungible", "Normal", <<7>>, <<1>>),
          DbSubstateId("System", "None", <<>>, <<>>)}

\* the byte that starts the encoding of a variant, and of an entity type
VariantByte(kind) ==
    CASE kind = "Root" -> 1
      [] kind = "System" -> 2
      [] kind = "Package" -> 3
      [] kind = "ComponentInfo" -> 4
      [] kind = "ComponentState" -> 5
      [] kind = "NonFungible" -> 6
      [] kind = "ResourceManager" -> 8

EntityByte(entity) ==
    CASE entity = "System" -> 1
      [] entity = "Account" -> 2
      [] entity = "Normal" -> 3

\* scrypto_encode of a SubstateId: the variant, then its fields
scrypto_encode(sid) ==
    IF sid.kind = "System" THEN <<VariantByte("System")>>
    ELSE <<VariantByte(sid.kind), EntityByte(sid.entity)>> \o sid.addr \o sid.id

\* scrypto_encode(&Root::Root(substate_id))
encode_root(sid) == <<VariantByte("Root")>> \o scrypto_encode(sid)

\* scrypto_decode::<SubstateId>; a key that encodes no SubstateId fails
scrypto_decode(key) ==
    IF \E sid \in DbSubstateIds : scrypto_encode(sid) = key
    THEN CHOOSE sid \in DbSubstateIds : scrypto_encode(sid) = key
    ELSE DbSubstateId("DecodeError", "None", <<>>, <<>>)

\* the keys write() and set_root() may have put into the database
DbKeys ==
    {scrypto_encode(sid) : sid \in DbSubstateIds}
    \cup {encode_root(sid) : sid \in {x \in DbSubstateIds : x.addr = <<0>>}}

\* the order of byte strings: a < b
RECURSIVE BytesLess(_, _)
BytesLess(a, b) ==
    IF b = <<>> THEN FALSE
    ELSE IF a = <<>> THEN TRUE
    ELSE IF Head(a) # Head(b) THEN Head(a) < Head(b)
    ELSE BytesLess(Tail(a), Tail(b))

\* the keys of the database in the order of the iterator
RECURSIVE KeyOrder(_)
KeyOrder(db) ==
    IF db = {} THEN <<>>
    ELSE LET first == CHOOSE k \in db : \A x \in db \ {k} : BytesLess(k, x)
         IN <<first>> \o KeyOrder(db \ {first})

\* IteratorMode::From(start, Direction::Forward): the keys that are not below
\* start
IteratorFrom(db, start) ==
    LET keys == KeyOrder(db)
        at == {i \in 1..Len(keys) : ~BytesLess(keys[i], start)}
    IN IF at = {} THEN <<>>
       ELSE SubSeq(keys, CHOOSE i \in at : \A j \in at : i <= j, Len(keys))

\* faulty variant: the length of the key is not looked at
RECURSIVE list_items_loop_any(_, _, _, _)
list_items_loop_any(iter, start, inclusive_end, items) ==
    IF iter = <<>> THEN items
    ELSE IF BytesLess(inclusive_end, Head(iter)) THEN items
    ELSE list_items_loop_any(Tail(iter), start, inclusive_end,
                             Append(items, scrypto_decode(Head(iter))))

\* the loop of list_items over the iterator
RECURSIVE list_items_loop(_, _, _, _)
list_items_loop(iter, start, inclusive_end, items) ==
    IF iter = <<>> THEN items
    ELSE IF BytesLess(inclusive_end, Head(iter)) THEN items
    ELSE list_items_loop(Tail(iter), start, inclusive_end,
                         IF Len(Head(iter)) = Len(start)
                         THEN Append(items, scrypto_decode(Head(iter)))
                         ELSE items)

\* RadixEngineDB::list_items
list_items(db, start, inclusive_end) ==
    list_items_loop(IteratorFrom(db, start), start, inclusive_end, <<>>)

\* the map of the listed ids to addresses; "panic" for an id of another
\* variant or a key that did not decode
AddressesOf(kind, substate_ids) ==
    [i \in 1..Len(substate_ids) |->
        IF substate_ids[i].kind = kind
        THEN <<substate_ids[i].entity, substate_ids[i].addr>>
        ELSE "panic"]

\* the lowest and the highest id of a variant and entity type
RangeStart(kind, entity) == scrypto_encode(DbSubstateId(kind, entity, <<0>>, <<>>))
RangeEnd(kind, entity) == scrypto_encode(DbSubstateId(kind, entity, <<255>>, <<>>))

\* RadixEngineDB::list_packages
list_packages(db) ==
    AddressesOf("Package",
                list_items(db, RangeStart("Package", "Normal"), RangeEnd("Package", "Normal")))

\* RadixEngineDB::list_components_helper
list_components_helper(db, entity) ==
    AddressesOf("ComponentState",
                list_items(db, RangeStart("ComponentState", entity),
                           RangeEnd("ComponentState", entity)))

\* RadixEngineDB::list_components
list_components(db) ==
    list_components_helper(db, "System") \o list_components_helper(db, "Account")
    \o list_components_helper(db, "Normal")

\* RadixEngineDB::list_resource_managers
list_resource_managers(db) ==
    AddressesOf("ResourceManager",
                list_items(db, RangeStart("ResourceManager", "Normal"),
                           RangeEnd("ResourceManager", "Normal")))

\* the ranges listed: those of the three listings and ranges that span
\* several variants
ListRanges ==
    {<<RangeStart(k, e), RangeEnd(k, e)>> :
        k \in {"Package", "ComponentState", "ResourceManager"}, e \in {"Normal"}}
    \cup {<<RangeStart("Package", "Normal"), RangeEnd("ResourceManager", "Normal")>>,
          <<scrypto_encode(DbSubstateId("Package", "Normal", <<7>>, <<>>)),
            RangeEnd("ComponentState", "Account")>>,
          <<RangeEnd("Package", "Normal"), RangeStart("Package", "Normal")>>}

ListInit ==
    /\ stack = <<>>
    /\ track = [substates |-> {}, locks |-> EmptyMap, touched |-> {}, taken |-> {},
                flushed |-> {}, created |-> {}, non_fungibles |-> {}]
    /\ child_nodes = [n \in AllNodes |-> {}]
    /\ value_ids = [n \in AllNodes |-> {}]
    /\ restricted = {}
    /\ component_info = [n \in AllNodes |-> 0]
    /\ persisted = {}
    /\ next_id = 1
    /\ fee = MaxFee
    /\ status = "running"
    /\ \E db \in {S \in SUBSET DbKeys : Cardinality(S) <= MaxKeys}, range \in ListRanges :
          last = [op |-> "none", db |-> db, start |-> range[1], inclusive_end |-> range[2],
                  items |-> <<>>, packages |-> <<>>, components |-> <<>>,
                  resource_managers |-> <<>>]

ListApply ==
    /\ status = "running" /\ last.op = "none"
    /\ last' = [last EXCEPT !.op = "list_items",
                            !.items = list_items(last.db, last.start, last.inclusive_end),
                            !.packages = list_packages(last.db),
                            !.components = list_components(last.db),
                            !.resource_managers = list_resource_managers(last.db)]
    /\ status' = "finished"
    /\ UNCHANGED <<stack, track, child_nodes, value_ids, restricted, component_info,
                   persisted, next_id, fee>>

SpecList == ListInit /\ [][ListApply]_vars

----------------------------------------------------------------------------
(* The cleanup of run() step by step: a frame whose body has returned and   *)
(* whose return values were taken clears its auth zone through a nested     *)
(* invoke_method and then drops what it still owns.  The nested frame is a  *)
(* frame of its own here, with its own run()                                *)

\* the proofs a frame's auth zone may hold when its body returns
ClearZones == {<<>>, <<"proof_a">>, <<"proof_a", "proof_b">>}

\* the nodes the frame may still own then
ClearHeapNodes == {<<"Bucket", 1>>, <<"Vault", 1>>}

\* faulty variant: run() takes no frame to have an auth zone
auth_zone_is_some_never(F) == FALSE

\* `if self.auth_zone.is_some()` of run()
auth_zone_is_some(F) == F.auth

\* the invoke_method the top frame made has returned Ok into it
ClearReturned ==
    /\ last.op = "invoke_method" /\ last.res = "Ok" /\ last.depth = Depth
    /\ last.aux.phase = "run"

\* a frame spawned for AuthZone::Clear: its receiver is the auth zone
IsClearFrame(F) == F.recv.t = "AuthZoneRef"

ClearInit ==
    /\ \E d \in 1..MaxDepth, auth \in BOOLEAN, zone \in ClearZones,
          heap \in SUBSET ClearHeapNodes :
          stack = <<new_root>>
                  \o [i \in 1..(d - 1) |->
                         NewFrame(ScryptoFn(pk0, "B", "f"), NoReceiver, TRUE, {}, EmptyMap,
                                  <<>>, "invoke_function", EmptyMap)]
                  \o <<[NewFrame(ScryptoFn(pk0, "B", "f"), NoReceiver, auth, heap, EmptyMap,
                                 <<>>, "invoke_function", EmptyMap)
                           EXCEPT !.zone = IF auth THEN zone ELSE <<>>]>>
    /\ track = [substates |-> {Sid("Package", pk0), Sid("ComponentInfo", c0),
                               Sid("ComponentState", c0), Sid("Vault", v0),
                               Sid("ResourceManager", r0)},
                locks |-> EmptyMap, touched |-> {}, taken |-> {}, flushed |-> {},
                created |-> {}, non_fungibles |-> {Sid("NonFungible", r0)}]
    /\ child_nodes = [n \in AllNodes |-> {}]
    /\ value_ids = [n \in AllNodes |-> IF n = c0 THEN {v0, k0} ELSE {}]
    /\ restricted = {}
    /\ component_info = [n \in AllNodes |-> 0]
    /\ persisted = StoreNodes
    /\ next_id = 1
    /\ fee \in 0..MaxFee
    /\ status = "running"
    /\ last = NoCall

\* run() of the top frame reaches `if self.auth_zone.is_some()` with an auth
\* zone: invoke_method(Receiver::AuthZoneRef, AuthZone::Clear, unit)
ClearStart ==
    /\ Running /\ Depth > 0 /\ auth_zone_is_some(Top) /\ ~ClearReturned
    /\ ApplyInvoke("invoke_method", UnitValue,
                   InvokeMethodSetup(Top, Depth, track, AuthZoneRef,
                                     NativeFn("AuthZone", "Clear"), UnitValue, <<>>, <<>>,
                                     fee, TRUE))

\* the frame spawned for AuthZone::Clear runs: its body clears the auth zone
\* it was handed, the caller's, and returns unit; its run() finds no auth
\* zone of its own (or has cleared it), drops what it owns and returns, and
\* the invoke_method in the caller finishes
ClearChildRun ==
    /\ Running /\ Depth > 1 /\ IsClearFrame(Top)
    /\ ~auth_zone_is_some(Top) \/ ClearReturned
    /\ ReturnApply(Top,
                   [stack[Len(stack) - 1] EXCEPT !.zone = AuthZoneClear(@)],
                   UnitValue,
                   RunTail_Cleared(take_available_values(Top.heap, Top.refs, <<>>, FALSE),
                                   [err |-> "Ok", charged |-> 0]))

\* run() of the frame whose body had returned goes on behind the clear:
\* drop_owned_values, and the result of run(); info counts the frames its
\* cleanup spawned
FinishRun ==
    /\ Running /\ Depth > 0 /\ ~IsClearFrame(Top)
    /\ ~auth_zone_is_some(Top) \/ ClearReturned
    /\ LET r == RunTail_Cleared(take_available_values(Top.heap, Top.refs, <<>>, FALSE),
                                [err |-> "Ok", charged |-> 0])
       IN /\ stack' = SetTop([Top EXCEPT !.heap = r.heap, !.refs = r.refs])
          /\ last' = Call("run", r.res, Depth, 0, <<>>, track.locks,
                          [NoAux EXCEPT !.phase = "run", !.left = r.left,
                                        !.info = IF ClearReturned THEN 1 ELSE 0])
          /\ status' = IF r.res = "Ok" THEN "finished" ELSE "failed"
    /\ UNCHANGED <<track, child_nodes, value_ids, restricted, component_info, persisted,
                   next_id, fee>>

ClearNext == ClearStart \/ ClearChildRun \/ FinishRun

SpecClear == ClearInit /\ [][ClearNext]_vars

\* run() is sequential code: a step that can be taken is taken
SpecClearFair == SpecClear /\ WF_vars(ClearNext)

----------------------------------------------------------------------------
(* Vocabulary of the properties *)

Invokes == {"invoke_function", "invoke_method"}

\* a step in which a SystemApi call completed (and `last` was written): every
\* step but the start of a child frame and a kernel panic
CallDone == Len(stack') <= Len(stack) /\ status' # "panicked"

\* a step in which an invoke returned Ok to its caller: the top frame is gone
Returned == Len(stack') < Len(stack)

\* the nodes the frame at stack index i owns: its roots and their children
Owned(i) == to_nodes(stack[i].heap)

\* the heap roots (with their children) held in a NativeSubstateRef
InBorrow ==
    UNION {to_nodes({r.ptr.root}) :
             r \in {b \in UNION {stack[i].borrowed : i \in 1..Len(stack)} : b.ptr.t = "Heap"}}

\* every node some frame holds
Held == UNION {Owned(i) : i \in 1..Len(stack)} \cup InBorrow

\* the Track locks among the locks a call recorded
TrackLocks(acq) == {i \in 1..Len(acq) : acq[i].ptr.t = "Store"}

----------------------------------------------------------------------------
(* Properties *)

NoDuplication ==
    /\ \A i, j \in 1..Len(stack) : i # j => Owned(i) \cap Owned(j) = {}
    /\ \A i \in 1..Len(stack) : \A a, b \in stack[i].heap :
          /\ a \notin child_nodes[b]
          /\ a # b => child_nodes[a] \cap child_nodes[b] = {}

NotInHeapAndTrack == Held \cap persisted = {}

\* the nodes run() handed to drop_nodes in this step
DroppedNow == IF CallDone /\ last'.aux.phase = "run" THEN to_nodes(last'.aux.left) ELSE {}

NoLoss == (Held \ Held') \subseteq (persisted' \cup DroppedNow)

\* C1: in every step, each node id is held by at most one frame's heap, no
\* node is at once in a heap and persisted in the Track, and a node leaves
\* the heaps only by being dropped by run() or persisted
C1_NodesUniqueNoLoss == [][NoDuplication' /\ NotInHeapAndTrack' /\ NoLoss]_vars

\* C2: an invoke_function / invoke_method that returns an error after it
\* acquired a Track lock has released every lock it acquired: the lock table
\* is what it was before the invoke
C2_LocksReleasedOnError ==
    (status = "failed" /\ last.op \in Invokes /\ TrackLocks(last.acq) # {})
        => track.locks = last.pre

\* C3: an invoke_method rejected by receiver_auth returns NotAuthorized with
\* every lock it acquired released and no substate changed
C3_NotAuthorizedReleasesLocks ==
    [][(CallDone /\ last'.res = "NotAuthorized")
          => /\ last'.op = "invoke_method"
             /\ track'.locks = track.locks
             /\ track'.substates = track.substates
             /\ track'.taken = track.taken
             /\ track'.flushed = track.flushed
             /\ value_ids' = value_ids
             /\ persisted' = persisted]_vars

\* the number of times the frame F holds a Track lock on sid
HeldBy(F, sid) == Cardinality({i \in TrackLocks(F.locked) : F.locked[i].sid = sid})

StoreReceiverFrames ==
    {i \in 2..Len(stack) : /\ stack[i].via = "invoke_method"
                           /\ stack[i].recv.t \in {"Ref", "Consumed"}
                           /\ stack[i].locked[1].ptr.t = "Store"}

\* C5: while a frame runs a method of a Store receiver, the receiver's primary
\* substate is locked exclusively, no second frame runs on the same primary
\* substate, and a nested invoke_method that reached the lock of that
\* substate failed with Reentrancy
C5_Reentrancy ==
    /\ \A i \in StoreReceiverFrames :
          /\ stack[i].locked[1].sid \in DOMAIN track.locks
          /\ track.locks[stack[i].locked[1].sid].mutable
    /\ \A i, j \in StoreReceiverFrames :
          i # j => stack[i].locked[1].sid # stack[j].locked[1].sid
    /\ (/\ status = "failed" /\ last.op = "invoke_method" /\ last.aux.phase = "setup"
        /\ last.aux.store
        /\ \E i \in StoreReceiverFrames : stack[i].locked[1].sid = last.aux.target)
          => last.res = "Reentrancy"

C5_Witness ==
    /\ status = "failed" /\ last.op = "invoke_method" /\ last.res = "Reentrancy"
    /\ last.aux.store
    /\ \E i \in StoreReceiverFrames :
          stack[i].locked[1].sid = last.aux.target

\* C6: at depth max_depth every invoke fails with MaxCallDepthLimitReached
\* and leaves the fee reserve, the frames and the Track as they were; no frame
\* is ever deeper than max_depth
C6_DepthLimit ==
    [][/\ Depth' <= MaxDepth
       /\ Depth = MaxDepth => Len(stack') <= Len(stack)
       /\ (Depth = MaxDepth /\ CallDone /\ last'.op \in Invokes /\ last'.aux.phase = "setup")
             => /\ last'.res = "MaxCallDepthLimitReached"
                /\ fee' = fee /\ stack' = stack /\ track' = track]_vars

C6_Witness ==
    /\ status = "failed" /\ Depth = MaxDepth /\ last.aux.phase = "setup"
    /\ last.op = "invoke_method" /\ last.res = "MaxCallDepthLimitReached"
    /\ Top.heap # {}

\* an invoke_function of the frame at depth max_depth was refused
C6_WitnessFunction ==
    /\ status = "failed" /\ Depth = MaxDepth /\ last.aux.phase = "setup"
    /\ last.op = "invoke_function" /\ last.res = "MaxCallDepthLimitReached"
    /\ last.depth = MaxDepth /\ fee = 0

C7_WitnessDropFailure ==
    status = "failed" /\ last.aux.phase = "run" /\ last.res = "DropFailure"

\* C8: every write of a Track substate by substate_write or by
\* substate_return_mut happens while that substate is locked exclusively
C8_WritesUnderExclusiveLock ==
    [][CallDone
          => \A sid \in last'.aux.wrote :
                sid \in DOMAIN track.locks /\ track.locks[sid].mutable]_vars

C9_WitnessStore ==
    \E i \in 2..Len(stack) :
        stack[i].via = "invoke_method" /\ stack[i].fn = NativeFn("Vault", "LockFee")

C10_WitnessRemoved == last.op = "substate_write" /\ last.res = "StoredNodeRemoved"
C10_WitnessNotFound == last.op = "substate_write" /\ last.res = "RENodeNotFound"

\* C11: verify_stored_value_update(old, missing) returns Ok exactly when the
\* two sets are equal; when some id of old is not in missing it returns
\* StoredNodeRemoved with such an id; it returns RENodeNotFound, with an id of
\* missing that is not in old, only when old is a subset of missing
C11_VerifyStoredValueUpdate ==
    last.op = "verify_stored_value_update"
       => /\ last.res \in {"Ok", "StoredNodeRemoved", "RENodeNotFound"}
          /\ last.res = verify_stored_value_update(last.old, last.missing)
          /\ (last.res = "Ok") <=> (last.old = last.missing)
          /\ (last.old \ last.missing # {})
                => last.res = "StoredNodeRemoved" /\ last.id \in last.old \ last.missing
          /\ last.res = "StoredNodeRemoved" => last.id \in last.old \ last.missing
          /\ last.res = "RENodeNotFound"
                => last.old \subseteq last.missing /\ last.id \in last.missing \ last.old

C11_Witness ==
    /\ last.op = "verify_stored_value_update" /\ last.res = "RENodeNotFound"
    /\ last.old # {} /\ Cardinality(last.missing \ last.old) >= 2

C11_WitnessRemoved ==
    /\ last.op = "verify_stored_value_update" /\ last.res = "StoredNodeRemoved"
    /\ last.missing \ last.old # {}

\* can_persist of a root: the root and all its descendants are of persistable
\* kinds
can_persist(r) == \A x \in to_nodes({r}) : Kind(x) \in {"Vault", "KeyValueStore", "Component"}

\* C12: the roots that take_available_values(ids, persist_only = true) hands
\* to node_create or substate_write satisfy can_persist, root and descendants;
\* hence every descendant of a heap root is of a persistable kind, whatever
\* node_create and substate_write calls built it
C12_TakenRootsPersistable ==
    [][/\ (/\ CallDone /\ last'.op \in {"node_create", "substate_write"}
           /\ last'.res \notin {"CostingError", "CantMove", "ValueNotAllowed"})
          => \A r \in Top.heap \ Top'.heap : can_persist(r)
       /\ \A i \in 1..Len(stack') : \A r \in stack'[i].heap :
             \A x \in child_nodes'[r] : Kind(x) \in {"Vault", "KeyValueStore", "Component"}]_vars

C12_Witness ==
    /\ last.op = "substate_write" /\ last.res = "Ok"
    /\ \E r \in last.aux.own : Kind(r) = "Component" /\ value_ids[r] # {}

C12_WitnessHeap ==
    \E r \in Top.heap : child_nodes[r] # {}

\* C13: node_globalize on a node that is no component, package or resource
\* manager, once its cost is paid, fails with RENodeGlobalizeTypeNotAllowed and
\* leaves the caller's heap, its node refs and the Track as they were; the
\* error is returned for such a node only
C13_GlobalizeTypeNotAllowed ==
    [][/\ (/\ CallDone /\ last'.op = "node_globalize" /\ last'.res # "CostingError"
           /\ Kind(last'.aux.node) \notin {"Component", "Package", "ResourceManager"})
          => /\ last'.res = "RENodeGlobalizeTypeNotAllowed"
             /\ stack' = stack /\ track' = track
             /\ child_nodes' = child_nodes /\ persisted' = persisted
       /\ (CallDone /\ last'.res = "RENodeGlobalizeTypeNotAllowed")
          => /\ last'.op = "node_globalize"
             /\ Kind(last'.aux.node) \notin {"Component", "Package", "ResourceManager"}]_vars

C13_Witness ==
    /\ status = "failed" /\ last.op = "node_globalize"
    /\ last.res = "RENodeGlobalizeTypeNotAllowed"
    /\ Kind(last.aux.node) = "Vault" /\ last.aux.node \in Top.heap
    /\ DOMAIN Top.refs # {}

\* C14: when node_globalize of a component succeeds, the component and its
\* descendants are in no heap any more, its ComponentInfo and ComponentState
\* are in the Track and the caller has a Store ref to it; the info of a
\* component of the Track is never changed afterwards, and a substate_read of
\* its ComponentInfo returns that info
C14_GlobalizeThenRead ==
    [][/\ (/\ CallDone /\ last'.op = "node_globalize" /\ last'.res = "Ok"
           /\ Kind(last'.aux.node) = "Component")
          => /\ to_nodes({last'.aux.node}) \cap Held' = {}
             /\ to_nodes({last'.aux.node}) \subseteq persisted'
             /\ Sid("ComponentInfo", last'.aux.node) \in track'.substates
             /\ Sid("ComponentState", last'.aux.node) \in track'.substates
             /\ last'.aux.node \in DOMAIN Top'.refs
             /\ Top'.refs[last'.aux.node] = StorePtr(last'.aux.node)
             /\ component_info'[last'.aux.node] = component_info[last'.aux.node]
       /\ \A c \in AllNodes :
             Sid("ComponentInfo", c) \in track.substates
                => /\ Sid("ComponentInfo", c) \in track'.substates
                   /\ component_info'[c] = component_info[c]
       /\ (/\ CallDone /\ last'.op = "substate_read" /\ last'.res = "Ok"
           /\ last'.aux.target[1] = "ComponentInfo")
          => last'.aux.info = component_info[get_node_id(last'.aux.target)]]_vars

\* a component created and globalized in this transaction, with an access
\* check added before, is read back
C14_Witness ==
    /\ last.op = "substate_read" /\ last.res = "Ok"
    /\ last.aux.target[1] = "ComponentInfo" /\ last.aux.ptr = "Store"
    /\ get_node_id(last.aux.target) \in MintedNodes

C14_WitnessChanged ==
    \E c \in MintedNodes :
        Sid("ComponentInfo", c) \in track.substates /\ component_info[c] = 1

\* C15: substate_read, once its cost is paid, fails with
\* SubstateReadNotReadable when the actor may not read the substate and
\* otherwise with SubstateReadSubstateNotFound when the frame has no ref to the
\* owning node; both leave the frames and the Track as they were, and a
\* successful read of a ComponentInfo leaves the lock table as it was
C15_SubstateReadErrors ==
    [][(CallDone /\ last'.op = "substate_read" /\ last'.res # "CostingError")
          => /\ ~is_substate_readable(Top.fn, Top.recv, last'.aux.target)
                  <=> last'.res = "SubstateReadNotReadable"
             /\ (/\ is_substate_readable(Top.fn, Top.recv, last'.aux.target)
                 /\ get_node_id(last'.aux.target) \notin DOMAIN Top.refs)
                  <=> last'.res = "SubstateReadSubstateNotFound"
             /\ last'.res \in {"SubstateReadNotReadable", "SubstateReadSubstateNotFound"}
                  => stack' = stack /\ track' = track
             /\ (last'.res = "Ok" /\ last'.aux.target[1] = "ComponentInfo")
                  => /\ track'.locks = track.locks
                     /\ Top'.heap = Top.heap]_vars

C15_Witness ==
    /\ status = "failed" /\ last.op = "substate_read"
    /\ last.res = "SubstateReadSubstateNotFound"
    /\ DOMAIN track.locks # {} /\ Top.heap # {}

C15_WitnessNotReadable ==
    /\ status = "failed" /\ last.op = "substate_read"
    /\ last.res = "SubstateReadNotReadable"
    /\ get_node_id(last.aux.target) \in DOMAIN Top.refs

C15_WitnessInfo ==
    /\ last.op = "substate_read" /\ last.res = "Ok"
    /\ last.aux.target[1] = "ComponentInfo" /\ last.aux.ptr = "Store"
    /\ last.aux.target \notin DOMAIN track.locks

C15_WitnessInfoShared ==
    /\ last.op = "substate_read" /\ last.res = "Ok"
    /\ last.aux.target[1] = "ComponentInfo" /\ last.aux.ptr = "Store"
    /\ last.aux.target \in DOMAIN track.locks

\* a step in which substate_take completed or hit a kernel panic
TakeDone == last'.op = "substate_take" /\ (CallDone \/ last'.res = "panic")

\* C16: substate_take fails with SubstateWriteNotWriteable when the actor may
\* not write the substate and with ValueNotAllowed when the current value
\* references a child node, the stored value unchanged in both cases; on a
\* writable substate whose current value is a leaf it returns the value and
\* the stored value becomes absent
C16_SubstateTake ==
    [][TakeDone
          => /\ ~is_substate_writeable(Top.fn, Top.recv, last'.aux.target)
                  => /\ last'.res = "SubstateWriteNotWriteable"
                     /\ track' = track /\ value_ids' = value_ids /\ stack' = stack
             /\ (/\ is_substate_writeable(Top.fn, Top.recv, last'.aux.target)
                 /\ last'.aux.phase = "read" /\ last'.aux.old # {})
                  => /\ last'.res = "ValueNotAllowed"
                     /\ track' = track /\ value_ids' = value_ids /\ stack' = stack
             /\ (/\ is_substate_writeable(Top.fn, Top.recv, last'.aux.target)
                 /\ last'.aux.phase = "read" /\ last'.aux.old = {})
                  => /\ last'.res = "Ok"
                     /\ last'.aux.target \notin track'.non_fungibles]_vars

\* the three cases of substate_take that the kernel serves
C16_TakeServed ==
    [][TakeDone
          => /\ last'.res = "SubstateWriteNotWriteable"
                  => /\ ~is_substate_writeable(Top.fn, Top.recv, last'.aux.target)
                     /\ track' = track /\ value_ids' = value_ids /\ stack' = stack
             /\ last'.res = "ValueNotAllowed"
                  => /\ last'.aux.old # {}
                     /\ track' = track /\ value_ids' = value_ids /\ stack' = stack
             /\ last'.res = "Ok"
                  => /\ last'.aux.target[1] = "NonFungible" /\ last'.aux.old = {}
                     /\ last'.aux.target \notin track'.non_fungibles
             /\ (last'.aux.target[1] = "NonFungible" /\ last'.aux.phase = "read"
                 /\ is_substate_writeable(Top.fn, Top.recv, last'.aux.target))
                  => last'.res = "Ok"]_vars

C16_WitnessTaken ==
    /\ last.op = "substate_take" /\ last.res = "Ok"
    /\ Sid("NonFungible", r0) \notin track.non_fungibles

C16_WitnessNotAllowed == last.op = "substate_take" /\ last.res = "ValueNotAllowed"

C16_WitnessNotWriteable == last.op = "substate_take" /\ last.res = "SubstateWriteNotWriteable"

\* a step in which the set-up of an invoke got past the depth check and the
\* charges and failed
SetupFailed ==
    /\ CallDone /\ last'.op \in Invokes /\ last'.aux.phase = "setup"
    /\ last'.res \notin {"MaxCallDepthLimitReached", "CostingError"}

\* C17: an invoke whose input holds a kv-store id fails with
\* KeyValueStoreNotAllowed, one whose input holds a vault id and no kv-store id
\* with VaultNotAllowed; a run() whose return value holds a kv-store id fails
\* with KeyValueStoreNotAllowed and a vault id in it is not refused; the frame
\* that is refused keeps its heap; hence no kv-store and no vault is among the
\* arguments a child frame starts with, and no kv-store among the nodes handed
\* back
C17_NoKvStoreOrVaultCrossing ==
    [][/\ SetupFailed
          => /\ (\E n \in last'.aux.arg : Kind(n) = "KeyValueStore")
                  <=> last'.res = "KeyValueStoreNotAllowed"
             /\ (/\ \E n \in last'.aux.arg : Kind(n) = "Vault"
                 /\ \A n \in last'.aux.arg : Kind(n) # "KeyValueStore")
                  <=> last'.res = "VaultNotAllowed"
             /\ last'.res \in {"KeyValueStoreNotAllowed", "VaultNotAllowed"}
                  => stack' = stack /\ track' = track
       /\ (CallDone /\ last'.aux.phase = "run")
          => /\ (\E n \in last'.aux.arg : Kind(n) = "KeyValueStore")
                  <=> last'.res = "KeyValueStoreNotAllowed"
             /\ last'.res = "KeyValueStoreNotAllowed" => stack' = stack
             /\ last'.res # "VaultNotAllowed"
             /\ last'.res = "Ok" => \A n \in last'.aux.ret : Kind(n) # "KeyValueStore"
       /\ Len(stack') > Len(stack)
          => \A n \in Top'.heap :
                \/ Kind(n) \notin {"KeyValueStore", "Vault"}
                \/ Top'.recv = ConsumedRecv(n)]_vars

C17_Witness ==
    /\ status = "failed" /\ last.op \in Invokes /\ last.aux.phase = "setup"
    /\ last.res = "KeyValueStoreNotAllowed"
    /\ \E n \in last.aux.arg : Kind(n) = "Vault"
    /\ last.aux.arg \subseteq Top.heap

C17_WitnessVault ==
    /\ status = "failed" /\ last.op = "invoke_method" /\ last.aux.phase = "setup"
    /\ last.res = "VaultNotAllowed" /\ last.aux.arg \subseteq Top.heap

C17_WitnessReturn ==
    /\ status = "failed" /\ last.aux.phase = "run"
    /\ last.res = "KeyValueStoreNotAllowed" /\ last.aux.arg \subseteq Top.heap

C17_WitnessVaultReturned ==
    /\ last.aux.phase = "run" /\ last.res = "Ok"
    /\ \E n \in last.aux.ret : Kind(n) = "Vault" /\ n \in Top.heap

\* the component addresses a frame has a reference to
ComponentRefs(F) == {n \in DOMAIN F.refs : Kind(n) = "Component"}

\* a step in which a frame at depth > 0 starts a callee
CalleeStarts == Depth > 0 /\ Len(stack') > Len(stack)

\* the results of an invoke that are decided before its references are passed
EarlierThanReferences ==
    {"MaxCallDepthLimitReached", "CostingError", "KeyValueStoreNotAllowed", "VaultNotAllowed",
     "RENodeNotFound", "PackageNotFound", "BlueprintNotFound", "MethodDoesNotExist",
     "InvalidFnInput", "InvokeMethodInvalidReceiver", "LockFeeError(RENodeNotInTrack)",
     "NotAuthorized", "AuthZoneDoesNotExist", "Reentrancy",
     "LockFeeError(RENodeAlreadyTouched)"}

\* C18 as stated: whenever a frame at depth > 0 starts a callee, the component
\* references of the callee are among the component references of its caller
C18_CalleeRefsSubset ==
    [][CalleeStarts => ComponentRefs(Top') \subseteq ComponentRefs(stack'[Len(stack)])]_vars

\* C18: an invoke at depth > 0 whose input references a component that is
\* not in the caller's node refs starts no callee, and
\* InvokeMethodInvalidReferencePass is returned only for such an input; the
\* component references a callee starts with, the one to its receiver apart,
\* are references its caller holds, with the caller's pointers
C18_ReferencesPassed ==
    [][/\ (Depth > 0 /\ CallDone /\ last'.op \in Invokes /\ last'.aux.phase = "setup")
          => (last'.res = "InvokeMethodInvalidReferencePass"
                <=> /\ \E c \in last'.aux.refed : c \notin DOMAIN Top.refs
                    /\ last'.res \notin EarlierThanReferences)
       /\ CalleeStarts
          => \A c \in ComponentRefs(Top') :
                \/ Top'.recv.t # "None" /\ c = Top'.recv.node
                \/ /\ c \in ComponentRefs(stack'[Len(stack)])
                   /\ Top'.refs[c] = stack'[Len(stack)].refs[c]]_vars

\* a callee was started with a reference, a Heap pointer, that its caller
\* passed in the input
C18_Witness ==
    /\ Depth = 3 /\ status = "running" /\ Top.recv.t = "None"
    /\ \E c \in ComponentRefs(Top) :
          /\ Top.refs[c].t = "Heap"
          /\ c \in ComponentRefs(stack[2]) /\ stack[2].refs[c] = Top.refs[c]

C18_WitnessInvalidPass ==
    /\ Depth > 0 /\ status = "failed" /\ last.op = "invoke_method"
    /\ last.res = "InvokeMethodInvalidReferencePass"
    /\ \E c \in last.aux.refed : c \notin DOMAIN Top.refs

\* the component addresses of a value that are not Store pointers in the node
\* refs of frame F
NotStoreRefs(F, refed) == {c \in refed : ~(c \in DOMAIN F.refs /\ F.refs[c] = StorePtr(c))}

\* C19: run() returns Ok only if every component address of the returned
\* value is a Store pointer in the frame's node refs, and
\* InvokeMethodInvalidReferencePass when one is not and the returned nodes
\* were accepted; after the invoke the caller's node refs hold
\* Store(Component(addr)) for each of them and its ComponentInfo is in the
\* Track
C19_ReturnedReferences ==
    [][(CallDone /\ last'.aux.phase = "run")
       => /\ last'.res = "Ok" => NotStoreRefs(Top, last'.aux.refed) = {}
          /\ last'.res = "InvokeMethodInvalidReferencePass"
               <=> /\ NotStoreRefs(Top, last'.aux.refed) # {}
                   /\ last'.res \notin {"KeyValueStoreNotAllowed", "RENodeNotFound"}
          /\ last'.res = "Ok"
               => /\ Returned
                  /\ \A c \in last'.aux.refed :
                        /\ c \in DOMAIN Top'.refs /\ Top'.refs[c] = StorePtr(c)
                        /\ Sid("ComponentInfo", c) \in track'.substates]_vars

\* a frame returned a reference to a component that was globalized in this
\* transaction, and its caller holds it
C19_Witness ==
    /\ last.aux.phase = "run" /\ last.res = "Ok" /\ Depth >= 1
    /\ \E c \in last.aux.refed : c # c0 /\ Top.refs[c] = StorePtr(c)

C19_WitnessInvalidPass ==
    /\ last.aux.phase = "run" /\ last.res = "InvokeMethodInvalidReferencePass"
    /\ \E c \in last.aux.refed : c \in DOMAIN Top.refs /\ Top.refs[c].t = "Heap"

\* C20: when an invoke starts a callee, every proof in the callee's heap, a
\* Consumed receiver apart (it is no call argument), is restricted
C20_ProofsRestricted ==
    [][Len(stack') > Len(stack)
       => \A n \in Top'.heap :
             (Kind(n) = "Proof" /\ Top'.recv # ConsumedRecv(n)) => n \in restricted']_vars

\* a callee runs with a proof its caller created and passed as an argument
C20_Witness ==
    /\ status = "running" /\ Depth >= 2 /\ Top.recv.t # "Consumed"
    /\ \E n \in Top.heap : Kind(n) = "Proof" /\ n \in restricted /\ n \notin StoreNodes

\* a proof that is a Consumed receiver moves to the callee as it is
C20_WitnessConsumed ==
    /\ status = "running" /\ Depth >= 2
    /\ \E n \in Top.heap : Kind(n) = "Proof" /\ Top.recv = ConsumedRecv(n) /\ n \notin restricted

\* C21: when an invoke returns Ok and hands back a bucket that the callee had
\* started with, the bucket is a root of the caller's heap under the same id,
\* with the child nodes it had, is neither a root nor a child in any other
\* frame's heap, and is not in the Track
C21_BucketMovedBack ==
    [][Returned
       => \A B \in last'.aux.ret \cap Top.args :
             Kind(B) = "Bucket"
             => /\ last'.res = "Ok"
                /\ B \in Top'.heap
                /\ child_nodes'[B] = child_nodes[B]
                /\ \A i \in 1..Len(stack') :
                      /\ i # Len(stack') => B \notin stack'[i].heap
                      /\ \A x \in stack'[i].heap : B \notin child_nodes'[x]
                /\ B \notin persisted']_vars

\* a bucket created by the caller went to a callee as an argument and came
\* back
C21_Witness ==
    /\ last.op \in Invokes /\ last.res = "Ok" /\ last.aux.phase = "run"
    /\ \E B \in last.aux.back : Kind(B) = "Bucket" /\ B \in Top.heap /\ B \in MintedNodes

\* a step in which a SystemApi call made by the body of the top frame
\* completed, the depth check of an invoke (it reads the frame's depth only)
\* apart
ApiCallDone ==
    /\ CallDone /\ last'.aux.phase \in {"setup", "read"}
    /\ last'.res # "MaxCallDepthLimitReached"

\* the heaps, node refs and Track state are as they were
KernelStateUnchanged ==
    /\ stack' = stack /\ track' = track /\ child_nodes' = child_nodes
    /\ value_ids' = value_ids /\ persisted' = persisted /\ restricted' = restricted
    /\ component_info' = component_info /\ next_id' = next_id

\* C22: every SystemApi call charges the fee reserve, and with an exhausted
\* reserve it returns a costing error and leaves the heaps, the node refs and
\* the Track as they were
C22_ChargedFirst ==
    [][ApiCallDone
       => /\ fee > 0 => last'.charged > 0
          /\ fee = 0 => last'.res = "CostingError" /\ KernelStateUnchanged]_vars

\* every SystemApi call of the model but substate_take charges the fee
\* reserve first: a call made with less than its cost returns CostingError
\* with the state as it was
C22_ChargedButTake ==
    [][(ApiCallDone /\ last'.op # "substate_take")
       => /\ fee > 0 => last'.charged > 0
          /\ fee < (IF last'.op \in Invokes THEN 2 ELSE 1)
               => last'.res = "CostingError" /\ KernelStateUnchanged]_vars

\* a substate_take was served with an empty fee reserve
C22_WitnessTake ==
    /\ last.op = "substate_take" /\ fee = 0 /\ last.res # "CostingError"

\* the operations the body of a frame performs on nodes and substates
BodyOps == {"substate_read", "substate_write", "substate_borrow_mut",
            "substate_return_mut", "node_create", "node_globalize"}

\* a step in which the running frame completed one of them
BodyOpDone ==
    /\ Len(stack') = Len(stack) /\ status' # "panicked" /\ last'.op \in BodyOps

\* what the root x of a heap holds: its child nodes, and the value ids and
\* the info of the root and of each child
RootValue(x) ==
    <<child_nodes[x], [y \in {x} \cup child_nodes[x] |-> <<value_ids[y], component_info[y]>>]>>

\* the contents of the owned heap of the frame at stack index i
HeapValue(i) == [x \in stack[i].heap |-> RootValue(x)]

\* the roots of the heap of frame fid that F holds a Heap pointer into
PointedRoots(F, fid) ==
    {F.refs[n].root : n \in {m \in DOMAIN F.refs :
                               F.refs[m].t = "Heap" /\ F.refs[m].frame_id = fid}}

\* the roots F has borrowed out of the heap of frame fid
BorrowedRoots(F, fid) ==
    {r.ptr.root : r \in {b \in F.borrowed : b.ptr.t = "Heap" /\ b.ptr.frame_id = fid}}

C23_WitnessReturned ==
    /\ last.op = "substate_return_mut" /\ last.res = "Ok"
    /\ \E i \in 1..(Len(stack) - 1) : PointedRoots(Top, i - 1) \cap stack[i].heap # {}

\* a frame has written a substate of a root in the heap of a frame below it
C23_WitnessWrite ==
    /\ last.op = "substate_write" /\ last.res = "Ok" /\ last.aux.wrote = {}
    /\ \E i \in 1..(Len(stack) - 1) : PointedRoots(Top, i - 1) \cap stack[i].heap # {}

\* nodes the running frame owned are child nodes of a root of a frame below
C23_WitnessWriteMoved ==
    /\ last.op = "substate_write" /\ last.res = "Ok" /\ last.aux.own # {}
    /\ \E i \in 1..(Len(stack) - 1) :
          \E x \in stack[i].heap : child_nodes[x] \cap last.aux.own # {}

\* C24: the result of a call, its error kind, the node id the error carries
\* and the heap it leaves, is the same in every iteration order of the hash
\* sets the kernel walks
C24_SameResults ==
    [][last'.op = "take_available_values"
       => \A r \in TakeResults(Top, last.ids, last.persist_only) :
             /\ r.err = last'.res /\ r.id = last'.id
             /\ r.heap = Top'.heap /\ r.refs = Top'.refs]_vars

\* the error kind alone is the same in every iteration order when nothing
\* has to persist
C24_SameErrorKind ==
    [][(last'.op = "take_available_values" /\ ~last.persist_only)
       => \A r \in TakeResults(Top, last.ids, last.persist_only) : r.err = last'.res]_vars

\* two ids were missing and one of them was reported
C24_WitnessMissing ==
    /\ last.op = "take_available_values" /\ last.res = "RENodeNotFound"
    /\ Cardinality(last.ids \ TakeHeapNodes) = 2

\* the proofs of `resource` in the auth zone built by new_root
ZoneProofs(resource) ==
    {i \in 1..Len(last.auth_zone) : last.auth_zone[i].resource = resource}

\* the distinct signer keys
DistinctSigners ==
    {last.signer_public_keys[i] : i \in 1..Len(last.signer_public_keys)}

\* C25: new_root builds a frame with depth 0, the actor TransactionProcessor
\* Run without receiver, an empty heap, no node refs, no parent heaps and no
\* caller auth zone; its auth zone holds one ECDSA_TOKEN proof, with one
\* non-fungible id per distinct signer key, exactly when there is a signer,
\* one SYSTEM_TOKEN proof exactly when is_system, and nothing else
C25_NewRoot ==
    last.op = "new_root"
       => /\ Len(stack) = 1 /\ last.depth = 0
          /\ Top.fn = NativeFn("TransactionProcessor", "Run") /\ Top.recv = NoReceiver
          /\ Top.heap = {} /\ Top.refs = EmptyMap /\ Top.auth
          /\ last.parent_heap_nodes = <<>> /\ last.caller_auth_zone = "None"
          /\ Cardinality(ZoneProofs("ECDSA_TOKEN"))
                = (IF last.signer_public_keys # <<>> THEN 1 ELSE 0)
          /\ \A i \in ZoneProofs("ECDSA_TOKEN") :
                /\ Cardinality(last.auth_zone[i].ids) = Cardinality(DistinctSigners)
                /\ \A k \in DistinctSigners : NonFungibleIdOf(k) \in last.auth_zone[i].ids
          /\ Cardinality(ZoneProofs("SYSTEM_TOKEN")) = (IF last.is_system THEN 1 ELSE 0)
          /\ Len(last.auth_zone)
                = Cardinality(ZoneProofs("ECDSA_TOKEN")) + Cardinality(ZoneProofs("SYSTEM_TOKEN"))

\* a system transaction whose signer list names a key twice
C25_Witness ==
    /\ last.op = "new_root" /\ last.is_system /\ Len(last.auth_zone) = 2
    /\ Len(last.signer_public_keys) = 3 /\ Cardinality(DistinctSigners) = 2

\* a transaction without signers
C25_WitnessNoSigner ==
    /\ last.op = "new_root" /\ last.signer_public_keys = <<>> /\ last.auth_zone = <<>>

\* a step in which the run() of the top frame returned an error to the
\* invoke that created the frame
ChildFailed ==
    /\ CallDone /\ last'.op \in Invokes /\ last'.aux.phase \in {"run", "body"}
    /\ last'.res # "Ok"

\* C26: when the run() of a child frame returns an error the invoke hands
\* that error to its caller and leaves the caller's frame, heap and node refs
\* as they were; an error of any call fails the transaction, after which no
\* invoke returns
C26_ChildErrorPropagates ==
    [][/\ ChildFailed
          => /\ Len(stack') = Len(stack) /\ last'.depth = Depth - 1
             /\ \A i \in 1..(Len(stack) - 1) : stack'[i] = stack[i]
       /\ (CallDone /\ last'.res # "Ok") => status' = "failed"
       /\ Returned => status = "running" /\ last'.res = "Ok"
       /\ status = "failed" => UNCHANGED vars]_vars

\* the run() of a frame two levels up failed for the cost of clearing its
\* auth zone, the values it was about to hand back are not with the caller
C26_Witness ==
    /\ status = "failed" /\ last.op \in Invokes /\ last.aux.phase = "run"
    /\ last.res = "CostingError" /\ Depth >= 2
    /\ last.aux.arg # {} /\ last.aux.arg \cap stack[Len(stack) - 1].heap = {}

\* run() failed to drop what the frame still owned after the returned values
\* were taken
C26_WitnessDropFailure ==
    /\ status = "failed" /\ last.op \in Invokes /\ last.res = "DropFailure"
    /\ last.aux.ret # {} /\ last.aux.ret \cap stack[Len(stack) - 1].heap = {}

\* the body of a nested frame failed
C26_WitnessBody ==
    /\ status = "failed" /\ last.op \in Invokes /\ last.aux.phase = "body" /\ Depth >= 2

\* every node some frame owns, and every node handed to the Track
NodesInUse ==
    persisted \cup UNION {to_nodes(stack[i].heap) : i \in 1..Len(stack)}

\* C27: node_create returns Ok only if every child id of the node is a root
\* of the caller's heap that can move and persist, and RENodeCreateNodeNotFound
\* when one is not owned and the owned ones can; on Ok the children have left
\* the roots of the caller's heap and are child nodes of the new root, which
\* is in the caller's heap under a fresh id, and a Heap ref at the caller's
\* depth is added exactly for a kv-store, a resource manager or a component
C27_NodeCreate ==
    [][(CallDone /\ last'.op = "node_create")
       => LET children == last'.aux.new
              n == <<Kind(CHOOSE x \in Top'.heap \ Top.heap : TRUE), next_id>>
          IN /\ last'.res = "Ok"
                => /\ children \subseteq Top.heap
                   /\ \A c \in children :
                         Kind(c) \in {"Vault", "KeyValueStore", "Component"}
                   /\ Top'.heap = (Top.heap \ children) \cup {n}
                   /\ n \notin children /\ n \notin NodesInUse /\ next_id' = next_id + 1
                   /\ child_nodes'[n] = to_nodes(children)
                   /\ \A c \in children : child_nodes'[c] = {}
                   /\ DOMAIN Top'.refs \subseteq DOMAIN Top.refs \cup {n}
                   /\ n \in DOMAIN Top'.refs
                         <=> Kind(n) \in {"KeyValueStore", "ResourceManager", "Component"}
                   /\ n \in DOMAIN Top'.refs => Top'.refs[n] = HeapPtr(Depth, n, NoNode)
             /\ last'.res = "RENodeCreateNodeNotFound"
                   <=> /\ fee >= 1 /\ children \ Top.heap # {}
                       /\ \A c \in children \cap Top.heap :
                             Kind(c) \in {"Vault", "KeyValueStore", "Component"}
             /\ last'.res # "Ok" => Top'.heap \subseteq Top.heap /\ next_id' = next_id]_vars

\* a component was created around a vault of the caller
C27_Witness ==
    /\ last.op = "node_create" /\ last.res = "Ok" /\ last.aux.new # {}
    /\ \E n \in Top.heap :
          /\ Kind(n) = "Component" /\ last.aux.new \subseteq child_nodes[n]
          /\ n \in DOMAIN Top.refs /\ Top.refs[n].t = "Heap"

\* a bucket was created: no node ref
C27_WitnessNoRef ==
    /\ last.op = "node_create" /\ last.res = "Ok"
    /\ \E n \in Top.heap : Kind(n) = "Bucket" /\ n[2] = next_id - 1 /\ n \notin DOMAIN Top.refs

C27_WitnessNotFound ==
    last.op = "node_create" /\ last.res = "RENodeCreateNodeNotFound"

C27_WitnessNotAllowed ==
    last.op = "node_create" /\ last.res = "ValueNotAllowed"

\* the heaps of all frames are as they were, but for the heap of the frame
\* at stack index home, which is h
HeapsBut(home, h) ==
    \A i \in 1..Len(stack) : stack'[i].heap = IF i = home THEN h ELSE stack[i].heap

\* C28: substate_borrow_mut takes the root out of the heap of the frame its
\* pointer names, or the substate out of the Track, and nothing else;
\* substate_return_mut of the unmodified reference puts it back into the
\* same heap under the same id, or into the Track under the same substate
\* id, so that the two in a row leave heaps and Track as they were; while a
\* root is borrowed it is not in its home heap
C28_BorrowReturn ==
    [][/\ (CallDone /\ last'.op = "substate_borrow_mut" /\ last'.res = "Ok")
          => /\ Top.borrowed = {}
             /\ \E r \in Top'.borrowed :
                   /\ Top'.borrowed = {r}
                   /\ IF r.ptr.t = "Heap"
                      THEN /\ r.ptr.root \in stack[r.ptr.frame_id + 1].heap
                           /\ HeapsBut(r.ptr.frame_id + 1,
                                       stack[r.ptr.frame_id + 1].heap \ {r.ptr.root})
                           /\ track' = track
                      ELSE /\ r.sid \in track.substates \ track.taken
                           /\ track' = [track EXCEPT !.taken = @ \cup {r.sid}]
                           /\ HeapsBut(0, {})
             /\ UNCHANGED <<child_nodes, value_ids, component_info>>
       /\ (/\ CallDone /\ last'.op = "substate_return_mut" /\ last'.res = "Ok"
           /\ component_info' = component_info)
          => /\ Top'.borrowed = {}
             /\ \E r \in Top.borrowed :
                   /\ Top.borrowed = {r}
                   /\ IF r.ptr.t = "Heap"
                      THEN /\ r.ptr.root \notin stack[r.ptr.frame_id + 1].heap
                           /\ HeapsBut(r.ptr.frame_id + 1,
                                       stack[r.ptr.frame_id + 1].heap \cup {r.ptr.root})
                           /\ track' = track
                      ELSE /\ r.sid \in track.substates \cap track.taken
                           /\ track' = [track EXCEPT !.taken = @ \ {r.sid}]
                           /\ HeapsBut(0, {})
             /\ UNCHANGED <<child_nodes, value_ids>>
       /\ \A i \in 1..Len(stack') : \A r \in stack'[i].borrowed :
             /\ i = Len(stack')
             /\ r.ptr.t = "Heap" => r.ptr.root \notin stack'[r.ptr.frame_id + 1].heap
             /\ r.ptr.t = "Store" => r.sid \in track'.taken]_vars

\* a root borrowed from the frame's own heap is back in it
C28_Witness ==
    /\ last.op = "substate_return_mut" /\ last.res = "Ok" /\ Top.borrowed = {}
    /\ last.aux.wrote = {}
    /\ \E n \in DOMAIN Top.refs :
          /\ Top.refs[n].t = "Heap" /\ Top.refs[n].frame_id = Depth
          /\ Top.refs[n].root \in Top.heap

\* a root is borrowed from the heap of the caller
C28_WitnessBetween ==
    \E r \in Top.borrowed :
       /\ r.ptr.t = "Heap" /\ r.ptr.frame_id < Depth
       /\ r.ptr.root \notin stack[r.ptr.frame_id + 1].heap

\* a substate borrowed from the Track was written back
C28_WitnessTrack ==
    /\ last.op = "substate_return_mut" /\ last.res = "Ok" /\ last.aux.wrote # {}
    /\ last.aux.wrote \cap track.taken = {}

\* no lock on a ComponentInfo substate is held in the lock table locks
NoInfoLock(locks) == \A sid \in DOMAIN locks : sid[1] # "ComponentInfo"

\* what invoke_function(TransactionProcessor::Run) of the root frame yields
\* for the component addresses comps, visited in the order corder
RootInvoke(refed, corder) ==
    InvokeFunctionSetup(Top, Depth, track, NativeFn("TransactionProcessor", "Run"),
                        Value({}, refed, {}, TRUE), <<>>, fee, corder)

\* C29: invoke_function at depth 0 gives the child a Store pointer for every
\* component address named by the input or by the argument of an
\* instruction when all of them exist, fails with RENodeNotFound when one
\* does not, and holds no lock on a ComponentInfo afterwards in either case
C29_RootReferences ==
    [][Len(stack) = 1
       => /\ \A refed \in SUBSET {c0, cX}, args \in SUBSET {c0, cX} :
             \A corder \in Orders(component_addresses(refed, args)) :
                /\ RootInvoke(refed, corder).res = "Ok"
                      <=> \A c \in refed \cup args :
                             Sid("ComponentInfo", c) \in track.substates
                /\ RootInvoke(refed, corder).res = "Ok"
                      => RootInvoke(refed, corder).frame.refs
                            = [c \in refed \cup args |-> StorePtr(c)]
                /\ RootInvoke(refed, corder).res \in {"Ok", "RENodeNotFound"}
                /\ NoInfoLock(RootInvoke(refed, corder).track.locks)
          /\ NoInfoLock(track'.locks)
          /\ Len(stack') = 2
                => \A c \in DOMAIN Top'.refs :
                      /\ Top'.refs[c] = StorePtr(c) /\ Kind(c) = "Component"
                      /\ Sid("ComponentInfo", c) \in track'.substates
          /\ Len(stack') = 1
                => /\ last'.op = "invoke_function" /\ last'.res = "RENodeNotFound"
                   /\ status' = "failed"]_vars

\* the transaction processor frame started with a Store pointer to the
\* component the manifest names, and no lock is held
C29_Witness ==
    /\ Len(stack) = 2 /\ last.op = "none" /\ NoInfoLock(track.locks)
    /\ DOMAIN Top.refs = {c0} /\ Top.refs[c0] = StorePtr(c0)
    /\ Sid("ComponentInfo", c0) \in track.touched

\* the manifest names a component that does not exist
C29_WitnessNotFound ==
    /\ Len(stack) = 1 /\ last.op = "invoke_function" /\ last.res = "RENodeNotFound"
    /\ NoInfoLock(track.locks)

\* the kinds of node that are looked for in the store without a reference
GloballyAccessible == {"ResourceManager", "System"}

\* the results of an invoke_method with a resolved receiver that come before
\* the move of a Consumed receiver
EarlierThanMove ==
    {"MethodDoesNotExist", "LockFeeError(RENodeNotInTrack)",
     "LockFeeError(RENodeAlreadyTouched)", "Reentrancy", "RENodeNotFound", "NotAuthorized"}

C30_WitnessUnresolved ==
    /\ last.op = "invoke_method" /\ last.res = "InvokeMethodInvalidReceiver"
    /\ last.aux.ptr = "None" /\ last.aux.node = NoNode

\* a frame runs on a resource manager its caller holds no reference to
C30_WitnessStore ==
    /\ Len(stack) >= 2 /\ Top.via = "invoke_method" /\ Top.recv.t = "Ref"
    /\ Kind(Top.recv.node) = "ResourceManager"
    /\ Top.recv.node \notin DOMAIN stack[Len(stack) - 1].refs
    /\ Top.refs[Top.recv.node] = StorePtr(Top.recv.node)

\* a frame runs on a Consumed receiver, which was a root of its caller
C30_WitnessConsumed ==
    /\ Len(stack) >= 2 /\ Top.via = "invoke_method" /\ Top.recv.t = "Consumed"
    /\ Top.recv.node \in Top.heap
    /\ Top.refs[Top.recv.node] = HeapPtr(Depth - 1, Top.recv.node, NoNode)

\* a frame runs on a receiver resolved through the node refs of its caller
C30_WitnessRefs ==
    /\ Len(stack) >= 2 /\ Top.via = "invoke_method" /\ Top.recv.t = "Ref"
    /\ Top.recv.node \in DOMAIN stack[Len(stack) - 1].refs
    /\ Top.recv.node \notin stack[Len(stack) - 1].heap
    /\ Top.refs[Top.recv.node] = stack[Len(stack) - 1].refs[Top.recv.node]

----------------------------------------------------------------------------
(* The actor check of invoke_method *)

\* the number of holders of the Track lock on sid
LockCount(locks, sid) == IF sid \in DOMAIN locks THEN locks[sid].count ELSE 0

\* a step in which invoke_method started a child frame for a Scrypto function
ScryptoMethodStarted ==
    /\ Len(stack') = Len(stack) + 1 /\ Top'.via = "invoke_method" /\ Top'.fn.t = "Scrypto"

\* a step in which invoke_method refused a Scrypto function on a component
\* whose blueprint is another one
ActorRefused ==
    /\ CallDone /\ last'.op = "invoke_method" /\ last'.res = "MethodDoesNotExist"
    /\ last'.aux.target[1] = "ComponentState"

\* the call proceeds only for the component's own package and blueprint, and
\* the ComponentInfo lock of the check is released before the child runs
ActorMatches ==
    ScryptoMethodStarted
       => LET n == Top'.recv.node
          IN /\ Kind(n) = "Component"
             /\ Top'.fn.pkg = component_package(n) /\ Top'.fn.bp = component_blueprint(n)
             /\ LockCount(track'.locks, Sid("ComponentInfo", n))
                   = LockCount(track.locks, Sid("ComponentInfo", n))
             /\ \A i \in 1..Len(Top'.locked) : Top'.locked[i].sid[1] # "ComponentInfo"

\* C31: a Scrypto invoke_method on a component proceeds only if the
\* component's package and blueprint are those of the function and fails with
\* MethodDoesNotExist otherwise; the temporary shared lock on the component's
\* ComponentInfo is released on both outcomes, on success before the child
\* frame runs
C31_ActorCheckReleasesLock ==
    [][/\ ActorMatches
       /\ ActorRefused
             => LockCount(track'.locks, <<"ComponentInfo", last'.aux.target[2]>>)
                   = LockCount(track.locks, <<"ComponentInfo", last'.aux.target[2]>>)]_vars

\* the success half of C31 alone
C31_ProceedsOnlyOnMatch == [][ActorMatches]_vars

\* a Scrypto method of another blueprint was refused on a stored component
C31_WitnessRefused ==
    /\ last.op = "invoke_method" /\ last.res = "MethodDoesNotExist"
    /\ last.aux.target[1] = "ComponentState" /\ last.aux.store

\* a frame runs a Scrypto method on a stored component
C31_WitnessStarted ==
    /\ Len(stack) >= 3 /\ Top.via = "invoke_method" /\ Top.fn.t = "Scrypto"
    /\ Top.refs[Top.recv.node].t = "Store"

----------------------------------------------------------------------------
(* The auth zones of a child frame *)

\* a step in which an invoke started a child frame
ChildStarted == Len(stack') = Len(stack) + 1

C32_WitnessNoZone ==
    /\ status = "failed" /\ last.res = "AuthZoneDoesNotExist" /\ ~Top.auth

\* a Scrypto method frame and a native method frame
C32_WitnessMethods ==
    /\ Len(stack) >= 4
    /\ stack[3].via = "invoke_method" /\ stack[3].fn.t = "Scrypto" /\ stack[3].auth
    /\ stack[4].via = "invoke_method" /\ stack[4].fn.t = "Native" /\ ~stack[4].auth

----------------------------------------------------------------------------
(* check_access_rule *)

\* the proofs a call names
NamedProofs(proof_ids) == {<<"Proof", proof_ids[i]>> : i \in 1..Len(proof_ids)}

\* C33: check_access_rule fails with ProofNotFound if one of the ids is no
\* proof root of the caller's heap; otherwise the rule is evaluated against
\* copies of the named proofs and the scratch zone is cleared; in both cases
\* the caller's heap, node refs and auth zone and the Track locks are what
\* they were
C33_CheckAccessRule ==
    [][last'.op = "check_access_rule"
       => /\ last'.res = (IF NamedProofs(last.proof_ids) \subseteq Top.heap
                          THEN "Ok" ELSE "ProofNotFound")
          /\ last'.res = "ProofNotFound"
                => /\ <<"Proof", last'.id>> \in NamedProofs(last.proof_ids) \ Top.heap
                   /\ ~last'.is_authorized
          /\ last'.res = "Ok"
                => /\ last'.is_authorized
                      = CASE last.access_rule[1] = "AllowAll" -> TRUE
                          [] last.access_rule[1] = "DenyAll" -> FALSE
                          [] OTHER -> <<"Proof", last.access_rule[2]>>
                                         \in NamedProofs(last.proof_ids)
                   /\ last'.simulated_auth_zone = <<>>
          /\ Top'.heap = Top.heap /\ Top'.refs = Top.refs
          /\ Top'.auth = Top.auth /\ Top'.zone = Top.zone
          /\ stack'[1] = stack[1]
          /\ track'.locks = track.locks]_vars

\* a rule was checked against two owned proofs by a frame that holds a proof
\* in its auth zone, while a Track lock was held
C33_Witness ==
    /\ last.op = "check_access_rule" /\ last.res = "Ok" /\ last.is_authorized
    /\ last.access_rule[1] = "Require" /\ Len(last.proof_ids) = 2
    /\ Top.zone # <<>> /\ track.locks # EmptyMap
    /\ NamedProofs(last.proof_ids) \subseteq Top.heap

\* an id named a bucket of the heap, not a proof
C33_WitnessNotFound ==
    /\ last.op = "check_access_rule" /\ last.res = "ProofNotFound"
    /\ <<"Bucket", last.id>> \in Top.heap /\ Len(last.proof_ids) = 2

----------------------------------------------------------------------------
(* The listings of RadixEngineDB *)

\* a <= b in byte order
BytesLeq(a, b) == a = b \/ BytesLess(a, b)

\* the set of the elements of a sequence
Range(seq) == {seq[i] : i \in 1..Len(seq)}

\* the keys of the database inside the range that have the length of start
KeysListed(db, start, inclusive_end) ==
    {k \in db : BytesLeq(start, k) /\ BytesLeq(k, inclusive_end) /\ Len(k) = Len(start)}

\* the addresses (entity type and bytes) whose substate `kind` has a key in
\* the database
AddressesPresent(db, kind) ==
    {<<sid.entity, sid.addr>> :
        sid \in {x \in DbSubstateIds : x.kind = kind /\ scrypto_encode(x) \in db}}

\* C34: list_items returns, in key order, the decoded keys of the range that
\* have the length of start and skips every other key; list_packages,
\* list_components and list_resource_managers return exactly the addresses
\* whose substate key is in the store
C34_Listings ==
    [][last'.op = "list_items"
       => LET items == last'.items
              keys == KeysListed(last.db, last.start, last.inclusive_end)
          IN /\ Len(items) = Cardinality(keys)
             /\ \A i \in 1..Len(items) :
                   /\ items[i].kind # "DecodeError"
                   /\ scrypto_encode(items[i]) \in keys
             /\ \A i, j \in 1..Len(items) :
                   i < j => BytesLess(scrypto_encode(items[i]), scrypto_encode(items[j]))
             /\ Range(last'.packages) = AddressesPresent(last.db, "Package")
             /\ Len(last'.packages) = Cardinality(AddressesPresent(last.db, "Package"))
             /\ Range(last'.components) = AddressesPresent(last.db, "ComponentState")
             /\ Len(last'.components)
                   = Cardinality(AddressesPresent(last.db, "ComponentState"))
             /\ Range(last'.resource_managers) = AddressesPresent(last.db, "ResourceManager")
             /\ Len(last'.resource_managers)
                   = Cardinality(AddressesPresent(last.db, "ResourceManager"))]_vars

\* a range was listed that holds a key to return, a longer key and a shorter
\* one to skip, with a key outside it
C34_Witness ==
    /\ last.op = "list_items" /\ Len(last.items) = 1
    /\ \E k \in last.db : /\ BytesLeq(last.start, k) /\ BytesLeq(k, last.inclusive_end)
                          /\ Len(k) > Len(last.start)
    /\ \E k \in last.db : BytesLess(k, last.start)

\* the packages were listed from a database that holds a Root marker and a
\* component beside a package
C34_WitnessPackages ==
    /\ last.op = "list_items" /\ Len(last.packages) = 1
    /\ Len(last.components) = 1
    /\ \E k \in last.db : Head(k) = VariantByte("Root")

----------------------------------------------------------------------------
(* The deepest frame *)

\* a step in which run() of a frame that has an auth zone (a child of
\* invoke_function or of a Scrypto invoke_method) ended at depth max_depth
DeepestRunDone ==
    /\ CallDone /\ last'.aux.phase = "run" /\ Depth = MaxDepth
    /\ Top.via = "invoke_function" \/ (Top.via = "invoke_method" /\ Top.fn.t = "Scrypto")

\* the errors run() returns for what the body handed back or left behind, or
\* for an empty fee reserve
ReturnErrors ==
    {"KeyValueStoreNotAllowed", "RENodeNotFound", "InvokeMethodInvalidReferencePass",
     "DropFailure", "CostingError", "CantMoveLockedBucket", "CantMoveRestrictedProof"}

\* C35: an invoke issued at depth max_depth - 1 whose callee makes no nested
\* invocation, returns a valid value and leaves only droppable nodes returns
\* Ok: the depth limit does not reject the clearing of the auth zone at the
\* end of run()
C35_DeepestFrameReturns ==
    [][DeepestRunDone
          => /\ last'.res # "MaxCallDepthLimitReached"
             /\ last'.res \notin ReturnErrors => last'.res = "Ok"]_vars

\* run() of a frame at depth max_depth that has no auth zone returned Ok
C35_WitnessNative ==
    /\ last.op = "invoke_method" /\ last.res = "Ok" /\ last.depth = MaxDepth - 1
    /\ last.aux.phase = "run"

\* the automatic clear of a frame at depth max_depth was refused
C35_WitnessRefused ==
    /\ status = "failed" /\ last.aux.phase = "run" /\ Depth = MaxDepth
    /\ last.res = "MaxCallDepthLimitReached" /\ Top.auth /\ Top.heap = {}

----------------------------------------------------------------------------
(* The Heap pointers of the node refs *)

\* no frame has borrowed a substate
NoBorrow == \A i \in 1..Len(stack) : stack[i].borrowed = {}

\* the Heap pointers among the node refs of the frame at depth d
HeapRefs(d) ==
    {stack[d + 1].refs[n] : n \in {x \in DOMAIN stack[d + 1].refs :
                                      stack[d + 1].refs[x].t = "Heap"}}

\* C36: in every live frame at depth d the parent heaps are the heaps of the
\* frames at depths 0..d-1, and every Heap pointer of its node refs names a
\* frame at depth <= d and, while no borrow is outstanding, a root of that
\* frame's heap; a node moved to a callee leaves no pointer to its old place
C36_HeapPointersValid ==
    status = "running"
       => \A d \in 0..Depth : \A p \in HeapRefs(d) :
             /\ p.frame_id <= d
             /\ NoBorrow => p.root \in stack[p.frame_id + 1].heap

\* the frame ids alone are those of the frame or of an ancestor
C36_FrameIdsValid ==
    \A d \in 0..Depth : \A p \in HeapRefs(d) : p.frame_id <= d

\* a frame holds a Heap pointer into the heap of its caller
C36_WitnessParent ==
    /\ status = "running" /\ NoBorrow /\ Depth >= 2
    /\ \E p \in HeapRefs(Depth) :
          p.frame_id = Depth - 1 /\ p.root \in stack[Depth].heap

\* a frame runs on a Consumed receiver and holds a pointer to the place the
\* receiver left
C36_WitnessStale ==
    /\ status = "running" /\ NoBorrow /\ Depth >= 2 /\ Top.recv.t = "Consumed"
    /\ Top.recv.node \in Top.heap
    /\ \E p \in HeapRefs(Depth) :
          /\ p.root = Top.recv.node /\ p.frame_id = Depth - 1
          /\ p.root \notin stack[Depth].heap

----------------------------------------------------------------------------
(* Failures of a set-up *)

\* the calls that take nodes out of the caller's heap
TakingOps == {"invoke_function", "invoke_method", "node_create", "substate_write"}

\* a step in which one of them failed before a child frame ran or a value
\* was written
TakingSetupFailed ==
    /\ CallDone /\ last'.op \in TakingOps /\ last'.res # "Ok"
    /\ last'.aux.phase = "setup"

\* C37: when invoke_function, invoke_method, node_create or substate_write
\* fails during its set-up, the caller's owned heap and node refs are what
\* they were before the call
C37_SetupFailureKeepsHeap ==
    [][TakingSetupFailed
          => /\ Len(stack') = Len(stack)
             /\ Top'.heap = Top.heap /\ Top'.refs = Top.refs]_vars

\* the part that holds: a failed set-up adds nothing to the caller's heap and
\* to its node refs
C37_SetupFailureAddsNothing ==
    [][TakingSetupFailed
          => /\ Len(stack') = Len(stack)
             /\ Top'.heap \subseteq Top.heap
             /\ \A n \in DOMAIN Top'.refs :
                   n \in DOMAIN Top.refs /\ Top'.refs[n] = Top.refs[n]]_vars

\* an invoke failed on a missing node after an owned one had been taken
C37_WitnessLost ==
    /\ status = "failed" /\ last.op \in Invokes /\ last.res = "RENodeNotFound"
    /\ last.aux.phase = "setup"
    /\ \E n \in last.aux.arg : Kind(n) = "Bucket" /\ n # bX /\ n \notin Top.heap

----------------------------------------------------------------------------
(* The locks of one invoke_method *)

\* the substates the set-up of the invoke_method recorded in c may lock: the
\* primary substate of its receiver, the receiver's ComponentInfo, its parent
\* substate, and the resource manager an input may name
SetupLocks(c) ==
    {c.aux.target, Sid("ComponentInfo", c.aux.target[2]), ParentLock(c.aux.target[2]).sid,
     Sid("ResourceManager", r0)}

\* C38: the locks one invoke_method acquires during its set-up do not
\* conflict with each other: it fails with Reentrancy only because of a lock
\* that was held before the call
C38_NoSelfReentrancy ==
    [][(CallDone /\ last'.op = "invoke_method" /\ last'.res = "Reentrancy")
          => \E sid \in DOMAIN track.locks : sid \in SetupLocks(last')]_vars

\* a native method on an owned bucket whose input names the bucket's resource
\* failed with Reentrancy while nothing was locked before the call
C38_WitnessSelf ==
    /\ status = "failed" /\ last.op = "invoke_method" /\ last.res = "Reentrancy"
    /\ last.pre = EmptyMap /\ last.aux.target[1] = "Bucket" /\ last.aux.ptr = "Heap"
    /\ Sid("ResourceManager", r0) \in DOMAIN track.locks
    /\ track.locks[Sid("ResourceManager", r0)].mutable

\* an invoke_method failed with Reentrancy on a substate an earlier frame holds
C38_WitnessEarlier ==
    /\ status = "failed" /\ last.op = "invoke_method" /\ last.res = "Reentrancy"
    /\ last.aux.target \in DOMAIN last.pre

----------------------------------------------------------------------------
(* Panics of the kernel *)

\* C39: no SystemApi call made with ids the caller chose reaches an assertion
\* failure or a panic; node_globalize of an id that is no root of the caller's
\* heap returns an error
C39_NoPanic == status # "panicked"

\* the running frame does not own the stored component 0 and has the fee for
\* a node_globalize, which aborts on it
C39_WitnessGlobalize ==
    /\ Running /\ Depth > 0 /\ Top.borrowed = {} /\ c0 \notin Top.heap
    /\ NodeGlobalizeResult(fee, c0, take_available_values(Top.heap, Top.refs, <<c0>>, FALSE))
          = "panic"

----------------------------------------------------------------------------
(* The automatic clear of the auth zone *)

\* the frames on the stack that were spawned for AuthZone::Clear
ClearFrames == {i \in 1..Len(stack) : IsClearFrame(stack[i])}

\* run() has gone through its cleanup: a frame with an auth zone spawned one
\* frame and its auth zone holds no proofs, a frame without one spawned none
CleanupDone ==
    /\ last.op = "run"
    /\ Top.auth => Top.zone = <<>> /\ last.aux.info = 1
    /\ ~Top.auth => last.aux.info = 0

\* the clear was refused by invoke_method's depth check or for want of fee
CleanupRefused ==
    /\ status = "failed" /\ last.op = "invoke_method" /\ last.depth = Depth
    /\ ClearFrames = {}
    /\ \/ last.res = "MaxCallDepthLimitReached" /\ Depth = MaxDepth
       \/ last.res = "CostingError" /\ fee = 0

\* one step of the cleanup
ClearStep ==
    /\ Len(stack') = Len(stack) + 1
          => /\ Top'.fn = NativeFn("AuthZone", "Clear") /\ IsClearFrame(Top')
             /\ ~Top'.auth /\ Top'.maybe_authzone
             /\ Top'.heap = {} /\ Top'.locked = <<>>
             /\ ClearFrames = {}
             /\ stack'[Len(stack)] = Top
    /\ Len(stack') = Len(stack) - 1
          => /\ IsClearFrame(Top)
             /\ Top' = [stack[Len(stack) - 1] EXCEPT !.zone = <<>>]
             /\ track' = track /\ fee' = fee
             /\ last'.res = "Ok" /\ status' = "running"
    /\ status' = "failed" /\ last'.op = "invoke_method"
          => /\ stack' = stack /\ track' = track
             /\ Depth = MaxDepth \/ fee < 2

C40_WitnessProofs ==
    /\ Running /\ IsClearFrame(Top) /\ ~Top.auth
    /\ Len(stack[Len(stack) - 1].zone) = 2

\* the frame spawned for the clear is about to clear an empty auth zone
C40_WitnessEmpty ==
    /\ Running /\ IsClearFrame(Top) /\ stack[Len(stack) - 1].zone = <<>>

\* a clear was refused in a frame at depth max_depth whose zone holds proofs
C40_WitnessRefused ==
    /\ CleanupRefused /\ last.res = "MaxCallDepthLimitReached" /\ Top.zone # <<>>

====
